---- MODULE Spec2Model ----
(***************************************************************************)
(* A model of the reactive core of the repository: Dep (dep.ts), the       *)
(* reactive field accessors and array interception (observer/index.ts,     *)
(* observer/array.ts), Watcher (observer/watcher.ts), the scheduler        *)
(* (observer/scheduler.ts), nextTick (util/next-tick.ts), the computed     *)
(* getter (instance/state.ts) and the child-list reconciliation of the     *)
(* patch function (vdom/create-element.ts: updateChildren).                *)
(*                                                                         *)
(* JavaScript is single threaded: a handler (a script statement, a         *)
(* microtask) runs to completion.  The calls a handler makes are modelled  *)
(* by operators that take the program state as a record and return the     *)
(* state after the call; an action applies one handler to the variables.   *)
(***************************************************************************)
EXTENDS Integers, Sequences, FiniteSets, TLC

\* ------------------------------------------------------------------ bounds
MaxVal == 1            \* field a holds a number of 0..MaxVal, or NaN
MaxQueue == 210        \* the queue of a flush that does not end is followed
                       \* up to this length
MaxTicks == 2          \* callbacks of the script waiting in nextTick

\* ------------------------------------------------------------------ values
NaN == 0 - 1           \* the number NaN
Undef == 0 - 2         \* undefined
ObjRef == 0 - 3        \* a reference to a (non reactive) object
Numbers == 0..MaxVal
\* the values the script assigns to a field: field a may also hold NaN
\* the values the script assigns: a number or NaN to a, the flags 0 and 1 to
\* b and c
FieldVals(f) == IF f = "a" THEN Numbers \cup {NaN} ELSE {0, 1}

\* a === b of JavaScript: NaN is not identical to itself
StrictEq(a, b) == a = b /\ a # NaN
\* isObject(v): v !== null && typeof v === 'object'
isObject(v) == v = ObjRef
\* if (v): 0, NaN and undefined are falsy
Truthy(v) == v \notin {0, NaN, Undef}

\* hasChanged(x, y): identity with NaN equal to itself
hasChanged(x, y) == IF StrictEq(x, y) THEN FALSE ELSE (x # NaN \/ y # NaN)

\* ------------------------------------------------------------------ names
Fields == {"a", "b", "c"}
\* the Dep closed over by each reactive field, the Dep of the property o that
\* holds the target object of set and del, and the Dep of its Observer
\* the objects of the heap a container field refers to: an array A, a nested
\* array N, an object O, element objects e1 and e2, and an object marked
\* raw (__v_skip)
Names == {"A", "N", "O", "e1", "e2", "raw"}
Deps == Fields \cup {"o", "ob"} \cup Names
\* the keys of the target object of set and del; toString is inherited from
\* Object.prototype
TKeys == {"x", "y", "toString"}
TVals == {0, 1}
Null == 0               \* null / undefined where a watcher is expected

\* ------------------------------------------------------- sequence helpers
IndexOf(seq, x) ==
  IF \E i \in 1..Len(seq) : seq[i] = x
  THEN CHOOSE i \in 1..Len(seq) : seq[i] = x /\ \A j \in 1..(i - 1) : seq[j] # x
  ELSE 0
Count(seq, x) == Cardinality({i \in 1..Len(seq) : seq[i] = x})
Range(seq) == {seq[i] : i \in 1..Len(seq)}
InsertAt(seq, i, x) == SubSeq(seq, 1, i - 1) \o <<x>> \o SubSeq(seq, i, Len(seq))
Last(seq) == seq[Len(seq)]

\* an event of the trace: what was called, on which watcher, with what
Ev(e, w, d, x, y) == [e |-> e, w |-> w, d |-> d, x |-> x, y |-> y]
Log(s, ev) == [s EXCEPT !.trace = Append(@, ev)]

\* const v = <expression>; K(v)
Bind(v, K(_)) == K(v)

\* ===================================================================== Dep
\* Dep.addSub: this.subs.push(sub)
addSub(s, d, w) == [s EXCEPT !.subs[d] = Append(@, w)]

\* Dep.removeSub: the slot of the first occurrence is set to null (indexOf
\* gives -1 for an absent sub, and subs[-1] = null changes no slot); the Dep
\* is put on pendingCleanupDeps once
removeSub(s, d, w) ==
  LET i == IndexOf(s.subs[d], w)
      s1 == IF i > 0 THEN [s EXCEPT !.subs[d][i] = Null] ELSE s
  IN  IF ~s1.depPending[d]
      THEN [s1 EXCEPT !.depPending[d] = TRUE,
                      !.pendingCleanupDeps = Append(@, d)]
      ELSE s1

\* cleanupDeps of dep.ts: the sweep of the null slots
depCleanupDeps(s) ==
  [s EXCEPT !.subs = [d \in Deps |->
                        IF d \in Range(s.pendingCleanupDeps)
                        THEN SelectSeq(s.subs[d], LAMBDA x : x # Null)
                        ELSE s.subs[d]],
            !.depPending = [d \in Deps |->
                        IF d \in Range(s.pendingCleanupDeps) THEN FALSE
                        ELSE s.depPending[d]],
            !.pendingCleanupDeps = <<>>]

pushTarget(s, t) == [s EXCEPT !.targetStack = Append(@, t), !.target = t]

\* a popTarget that leaves Dep.target as it is
popTargetStale(s) ==
  [s EXCEPT !.targetStack = SubSeq(@, 1, Len(@) - 1)]

popTarget(s) ==
  LET st == IF Len(s.targetStack) > 0
            THEN SubSeq(s.targetStack, 1, Len(s.targetStack) - 1)
            ELSE s.targetStack
  IN  [s EXCEPT !.targetStack = st,
                !.target = IF Len(st) > 0 THEN Last(st) ELSE Null]

\* ================================================================= Watcher
\* Watcher.addDep
\* an addDep that subscribes whenever the Dep is new in this pass
addDepResubscribe(s, w, d) ==
  IF d \notin s.ws[w].newDepIds
  THEN addSub([s EXCEPT !.ws[w].newDepIds = @ \cup {d},
                        !.ws[w].newDeps = Append(@, d)], d, w)
  ELSE s

addDep(s, w, d) ==
  IF d \notin s.ws[w].newDepIds
  THEN LET s1 == [s EXCEPT !.ws[w].newDepIds = @ \cup {d},
                           !.ws[w].newDeps = Append(@, d)]
       IN  IF d \notin s.ws[w].depIds THEN addSub(s1, d, w) ELSE s1
  ELSE s

\* Dep.depend
DepDepend(s, d) == IF s.target # Null THEN addDep(s, s.target, d) ELSE s

\* the while (i--) loop of Watcher.cleanupDeps over this.deps
RECURSIVE cleanupLoop(_, _, _)
cleanupLoop(s, w, i) ==
  IF i = 0 THEN s
  ELSE LET d == s.ws[w].deps[i]
       IN  cleanupLoop(IF d \notin s.ws[w].newDepIds THEN removeSub(s, d, w) ELSE s,
                       w, i - 1)

\* the swap of depIds/newDepIds and deps/newDeps in Watcher.cleanupDeps
swapDeps(s, w) ==
  [s EXCEPT !.ws[w].depIds = s.ws[w].newDepIds,
            !.ws[w].newDepIds = {},
            !.ws[w].deps = s.ws[w].newDeps,
            !.ws[w].newDeps = <<>>]

\* cleanupDeps that keeps the subscriptions not renewed
cleanupDepsKeepSubs(s, w) == swapDeps(s, w)

\* Watcher.cleanupDeps: drop the subscriptions not renewed, swap the sets
cleanupDeps(s, w) == swapDeps(cleanupLoop(s, w, Len(s.ws[w].deps)), w)

\* the while (i--) loop of Watcher.depend: this.deps[i].depend()
RECURSIVE dependLoop(_, _, _)
dependLoop(s, w, i) ==
  IF i = 0 THEN s ELSE dependLoop(DepDepend(s, s.ws[w].deps[i]), w, i - 1)

\* a depend that re-exports only the Dep subscribed to first
WatcherDependFirst(s, w) ==
  IF s.ws[w].deps = <<>> THEN s ELSE DepDepend(s, s.ws[w].deps[1])

\* Watcher.depend
WatcherDepend(s, w) == dependLoop(s, w, Len(s.ws[w].deps))

\* the while (i--) loop of Watcher.teardown: this.deps[i].removeSub(this)
RECURSIVE teardownLoop(_, _, _)
teardownLoop(s, w, i) ==
  IF i = 0 THEN s ELSE teardownLoop(removeSub(s, s.ws[w].deps[i], w), w, i - 1)

\* Watcher.teardown
teardown(s, w) ==
  IF s.ws[w].active
  THEN LET s1 == teardownLoop(s, w, Len(s.ws[w].deps))
       IN  Log([s1 EXCEPT !.ws[w].active = FALSE], Ev("stop", w, "", Undef, Undef))
  ELSE s

\* =============================================================== scheduler
\* a nextTick that calls the timer function for every callback
nextTickArmAlways(s, cb) ==
  [s EXCEPT !.callbacks = Append(@, cb), !.pending = TRUE, !.timers = @ + 1]

\* nextTick(cb): the callback is appended; the timer function is called
\* unless a batch is already pending
nextTick(s, cb) ==
  LET s1 == [s EXCEPT !.callbacks = Append(@, cb)]
  IN  IF ~s1.pending
      THEN [s1 EXCEPT !.pending = TRUE, !.timers = @ + 1]
      ELSE s1

\* sortCompareFn(a, b) < 0, > 0, = 0 as -1, 1, 0
sortCompareFn(s, a, b) ==
  IF s.ws[a].post /\ ~s.ws[b].post THEN 1
  ELSE IF ~s.ws[a].post /\ s.ws[b].post THEN 0 - 1
  ELSE a - b

\* queue.sort(sortCompareFn): an insertion sort, stable as Array.prototype.sort
RECURSIVE sortInsert(_, _, _)
sortInsert(s, sorted, x) ==
  IF sorted = <<>> THEN <<x>>
  ELSE IF sortCompareFn(s, x, Last(sorted)) < 0
       THEN Append(sortInsert(s, SubSeq(sorted, 1, Len(sorted) - 1), x), Last(sorted))
       ELSE Append(sorted, x)

\* a flush that does not sort
sortQueueNone(s, q) == q

RECURSIVE sortQueue(_, _)
sortQueue(s, q) ==
  IF q = <<>> THEN <<>>
  ELSE sortInsert(s, sortQueue(s, SubSeq(q, 1, Len(q) - 1)), Last(q))

\* a scan that stops at once: the watcher goes to the end of the queue
spliceScanNone(q, index, id, i) == i

\* the scan of queueWatcher while flushing (i and index count from 0):
\* while (i > index && queue[i].id > watcher.id) i--
RECURSIVE spliceScan(_, _, _, _)
spliceScan(q, index, id, i) ==
  IF i > index /\ q[i + 1] > id THEN spliceScan(q, index, id, i - 1) ELSE i

\* queueWatcher, after its two early returns
enqueue(s, w) ==
    LET s1 == [s EXCEPT !.has[w] = "true", !.queuedLog = Append(@, w)]
        s2 == IF ~s1.flushing
              THEN [s1 EXCEPT !.queue = Append(@, w)]
              ELSE LET i == spliceScan(s1.queue, s1.index, w, Len(s1.queue) - 1)
                   IN  [s1 EXCEPT !.queue = InsertAt(@, i + 2, w)]
        s3 == Log([s2 EXCEPT !.queueCalls =
                     Append(@, [w |-> w, flushing |-> s.flushing, index |-> s.index,
                                before |-> s.queue, after |-> s2.queue])],
                  Ev("queue", w, "", Undef, Undef))
    IN  IF ~s3.waiting
        THEN nextTick([s3 EXCEPT !.waiting = TRUE], "flush")
        ELSE s3

\* queueWatcher without the test of has[id]
queueWatcherNoDedup(s, w) == enqueue(s, w)

\* queueWatcher
queueWatcher(s, w) ==
  IF s.has[w] = "true" THEN s
  ELSE IF w = s.target /\ s.ws[w].noRecurse THEN s
  ELSE enqueue(s, w)

\* resetSchedulerState
resetSchedulerState(s) ==
  [s EXCEPT !.index = 0, !.queue = <<>>, !.activatedChildren = <<>>,
            !.has = [w \in DOMAIN s.has |-> "undefined"],
            !.circular = [w \in DOMAIN s.circular |-> 0],
            !.waiting = FALSE, !.flushing = FALSE]

\* ==================================================== evaluation and update
\* traverse(value) of a deep watcher: the values of this model are
\* primitives or an object with no reactive property, so no getter fires
traverse(s, v) == s

RECURSIVE get(_, _, _), run(_, _), update(_, _, _), notifyLoop(_, _, _, _)
RECURSIVE reactiveSetter(_, _, _), callCb(_, _, _, _), evalGetter(_, _)
RECURSIVE computedGetter(_, _), evaluate(_, _)

\* reactiveGetter of defineReactive: dep.depend() under an active watcher
reactiveGetter(s, f) ==
  LET s1 == IF s.target # Null
            THEN [DepDepend(s, f) EXCEPT !.curReads[s.target] = @ \cup {f}]
            ELSE s
  IN  [s1 EXCEPT !.ret = s.val[f]]

\* () => Object.keys(vm.o).length: reactiveGetter of the property o, whose
\* value carries the Observer childOb when the target was observed
targetGetter(s) ==
  LET s1 == IF s.target # Null
            THEN [DepDepend(s, "o") EXCEPT !.curReads[s.target] = @ \cup {"o"}]
            ELSE s
      s2 == IF s.target # Null /\ s.tgt.ob
            THEN [DepDepend(s1, "ob") EXCEPT !.curReads[s.target] = @ \cup {"ob"}]
            ELSE s1
  IN  [s2 EXCEPT !.ret = IF s.tgt.isArray THEN Len(s.tgt.items)
                         ELSE Cardinality({k \in TKeys : s.tgt.keys[k] # "none"})]

\* dependArray(value), from its element i on; Obj is the object a name
\* refers to (the object a call of set, del or an array method works on is
\* held in tgt), and a name outside the heap is a primitive
Obj(s, n) == IF n = s.heap.cur THEN s.tgt ELSE s.heap.objs[n]
IsObj(s, n) == n \in DOMAIN s.heap.objs

RECURSIVE dependArray(_, _, _)
\* a dependArray that looks at the first element only, and not into it
dependArrayFirst(s, items, i) ==
  IF items # <<>> /\ IsObj(s, items[1]) /\ Obj(s, items[1]).ob
  THEN [DepDepend(s, Obj(s, items[1]).dep)
          EXCEPT !.curReads[s.target] = @ \cup {Obj(s, items[1]).dep}]
  ELSE s

dependArray(s, items, i) ==
  IF i > Len(items) THEN s
  ELSE LET e == items[i]
           s1 == IF IsObj(s, e) /\ Obj(s, e).ob
                 THEN [DepDepend(s, Obj(s, e).dep)
                         EXCEPT !.curReads[s.target] = @ \cup {Obj(s, e).dep}]
                 ELSE s
           s2 == IF IsObj(s, e) /\ Obj(s, e).isArray
                 THEN dependArray(s1, Obj(s, e).items, 1)
                 ELSE s1
       IN  dependArray(s2, items, i + 1)

\* () => vm.o: reactiveGetter of the property o, whose value is the root of
\* the heap: dep.depend(), childOb.dep.depend(), dependArray(value)
containerGetter(s) ==
  LET v == Obj(s, s.heap.root)
      s1 == IF s.target # Null
            THEN [DepDepend(s, "o") EXCEPT !.curReads[s.target] = @ \cup {"o"}]
            ELSE s
      s2 == IF s.target # Null /\ v.ob
            THEN [DepDepend(s1, v.dep) EXCEPT !.curReads[s.target] = @ \cup {v.dep}]
            ELSE s1
      s3 == IF s.target # Null /\ v.ob /\ v.isArray
            THEN dependArray(s2, v.items, 1)
            ELSE s2
  IN  [s3 EXCEPT !.ret = ObjRef]

\* dep.notify(): update() on each non null subscriber of a snapshot
notifyLoop(s, subs, i, d) ==
  IF i > Len(subs) \/ s.exc THEN s
  ELSE notifyLoop(update(s, subs[i], d), subs, i + 1, d)

notify(s, d) ==
  notifyLoop(Log(s, Ev("notify", Null, d, Undef, Undef)),
             SelectSeq(s.subs[d], LAMBDA x : x # Null), 1, d)

\* a setter without the test of hasChanged
reactiveSetterAlways(s, f, newVal) ==
  notify(Log([s EXCEPT !.val[f] = newVal],
             Ev("assign", Null, f, newVal, s.val[f])), f)

\* reactiveSetter of defineReactive, for a data property holding a primitive
reactiveSetter(s, f, newVal) ==
  IF ~hasChanged(s.val[f], newVal) THEN s
  ELSE notify(Log([s EXCEPT !.val[f] = newVal],
                  Ev("assign", Null, f, newVal, s.val[f])), f)

\* Watcher.update.  The event records the branch taken (0: dirty, 1: run,
\* 2: queueWatcher) and whether the latest evaluation of w read the Dep
update(s, w, d) ==
  LET rd == IF d \in s.reads[w] THEN 1 ELSE 0
  IN  IF s.ws[w].lazy
      THEN Log([s EXCEPT !.ws[w].dirty = TRUE], Ev("update", w, d, 0, rd))
      ELSE IF s.ws[w].sync
      THEN run(Log(s, Ev("update", w, d, 1, rd)), w)
      ELSE queueWatcher(Log(s, Ev("update", w, d, 2, rd)), w)

\* handleError(e, vm, info): the error is reported, not thrown again
handleError(s, w, info) ==
  Log([s EXCEPT !.exc = FALSE], Ev("error", w, info, Undef, Undef))

\* a watcher whose errors are never handled
isUserNever(s, w) == FALSE

\* the test of Watcher.get and Watcher.run: this.user
isUser(s, w) == s.ws[w].user

\* render.call(vm._renderProxy, vm.$createElement): the render function reads
\* the field f and throws when its truth value is the one of vm.throwsWhen
\* (never when that is undefined)
renderCall(s, w) ==
  Bind(reactiveGetter(s, s.ws[w].getter.f),
       LAMBDA r1 : IF /\ s.ws[w].vm.throwsWhen # Undef
                      /\ Truthy(r1.ret) = (s.ws[w].vm.throwsWhen = 1)
                   THEN [r1 EXCEPT !.exc = TRUE]
                   ELSE [r1 EXCEPT !.ret = "tree"])

\* a catch block whose result is always the empty node
catchRenderEmpty(s, w) == [handleError(s, w, "render") EXCEPT !.ret = "empty"]

\* the catch block of _render: handleError, then the result of renderError
\* in a development build that has the option, else the previous vnode
catchRender(s, w) ==
  LET vm == s.ws[w].vm
      s1 == handleError(s, w, "render")
  IN  IF vm.dev /\ vm.renderError # "none"
      THEN IF vm.renderError = "throws"
           THEN [handleError(s1, w, "renderError") EXCEPT !.ret = vm.vnode]
           ELSE [s1 EXCEPT !.ret = "fallback"]
      ELSE [s1 EXCEPT !.ret = vm.vnode]

\* Vue.prototype._render: a result that is not a VNode becomes
\* createEmptyVNode()
_render(s, w) ==
  Bind(renderCall(s, w),
       LAMBDA r1 :
         Bind(IF r1.exc THEN catchRender(r1, w) ELSE r1,
              LAMBDA r2 : IF r2.ret = "null" THEN [r2 EXCEPT !.ret = "empty"] ELSE r2))

\* queueActivatedComponent(vm): the push; the component is named by the
\* render watcher in whose patch it is inserted
queueActivatedComponent(s, w) ==
  [s EXCEPT !.activatedChildren = Append(@, w)]

\* Vue.prototype._update: vm._vnode = vnode, and the patch of the previous
\* vnode with it, in which a kept-alive child that is inserted queues its
\* activation
_update(s, w, vnode) ==
  LET s1 == Log([s EXCEPT !.ws[w].vm.vnode = vnode],
                Ev("patch", w, vnode, s.ws[w].vm.vnode, Undef))
  IN  IF s.ws[w].vm.keptAlive /\ vnode = "tree"
      THEN queueActivatedComponent(s1, w)
      ELSE s1

\* updateComponent = () => { vm._update(vm._render(), hydrating) }
updateComponent(s, w) ==
  Bind(_render(s, w), LAMBDA r : [_update(r, w, r.ret) EXCEPT !.ret = Undef])

\* the getter of a watcher: the expression it was built from
evalGetter(s, w) ==
  LET g == s.ws[w].getter
      r1 == reactiveGetter(s, g.f)
  IN  CASE g.k = "field" -> r1
        [] g.k = "cond" ->
             IF Truthy(r1.ret) THEN reactiveGetter(r1, g.g) ELSE reactiveGetter(r1, g.h)
        [] g.k = "computed" -> computedGetter(s, g.c)
        [] g.k = "condc" ->
             IF Truthy(r1.ret) THEN reactiveGetter(r1, g.g) ELSE computedGetter(r1, g.c)
        [] g.k = "obj" -> [r1 EXCEPT !.ret = ObjRef]
        [] g.k = "keys" -> targetGetter(s)
        [] g.k = "container" -> containerGetter(s)
        [] g.k = "render" -> updateComponent(s, w)
        [] g.k = "throw" -> [r1 EXCEPT !.exc = TRUE]
        [] g.k = "throwIf" -> IF Truthy(r1.ret) THEN [r1 EXCEPT !.exc = TRUE] ELSE r1
        [] g.k = "then" ->
             \* function () { this.f; return this.c }
             computedGetter(r1, g.c)
        [] g.k = "setIf" ->
             \* function () { if (!this.f) this.f = 1; return this.g }
             LET r2 == IF Truthy(r1.ret) THEN r1 ELSE reactiveSetter(r1, g.f, 1)
             IN  IF r2.exc THEN r2 ELSE reactiveGetter(r2, g.g)
        [] g.k = "stopIf" ->
             \* function () { const x = this.f; if (x) { this.g; unwatch() }; return x }
             IF Truthy(r1.ret)
             THEN [teardown(reactiveGetter(r1, g.g), w) EXCEPT !.ret = r1.ret]
             ELSE r1

\* a call of Watcher.get as the log keeps it: Dep.target and targetStack
\* before the call, after pushTarget(this) and when the call is left
GetCall(w, s0, s1, s2, threw) ==
  [w |-> w, threw |-> threw,
   before |-> <<s0.target, s0.targetStack>>,
   pushed |-> <<s1.target, s1.targetStack>>,
   after |-> <<s2.target, s2.targetStack>>]

\* Watcher.get
get(s, w, via) ==
  Bind(evalGetter(Log(pushTarget([s EXCEPT !.curReads[w] = {}], w),
                      Ev("eval", w, via, Undef, Undef)), w),
       LAMBDA s1 :
         LET threw == s1.exc
             s2 == IF threw /\ isUser(s1, w)
                   THEN handleError(s1, w, "getter")
                   ELSE s1
             value == IF threw THEN Undef ELSE s1.ret
             s3 == IF s1.ws[w].deep THEN traverse(s2, value) ELSE s2
         IN  Bind(cleanupDeps(popTarget(s3), w),
                  LAMBDA s4 : [s4 EXCEPT !.reads[w] = s4.curReads[w],
                                         !.curReads[w] = s.curReads[w], !.ret = value,
                                         !.getLog = Append(@, GetCall(w, s, pushTarget(s, w), s4, threw))]))

\* the callback of a watcher
callCb(s, w, value, oldValue) ==
  LET c == s.ws[w].cb
      s1 == Log(s, Ev("cb", w, "", value, oldValue))
  IN  CASE c.k = "noop" -> s1
        [] c.k = "set" -> reactiveSetter(s1, c.f, c.v)
        [] c.k = "teardown" -> teardown(s1, c.w)
        [] c.k = "throw" -> [s1 EXCEPT !.exc = TRUE]
        [] c.k = "toggle" -> reactiveSetter(s1, c.f, IF Truthy(s1.val[c.f]) THEN 0 ELSE 1)

\* a test that fires the callback whatever the value
shouldFireAlways(s, w, value, oldValue) == TRUE

\* the test of Watcher.run: value !== this.value || isObject(value) || this.deep
shouldFire(s, w, value, oldValue) ==
  ~StrictEq(value, oldValue) \/ isObject(value) \/ s.ws[w].deep

\* a run() that does not test this.active
isActiveAlways(s, w) == TRUE

\* the test of Watcher.run: this.active
isActive(s, w) == s.ws[w].active

\* Watcher.run
run(s, w) ==
  IF ~isActive(s, w) THEN Log(s, Ev("run", w, "", 0, Undef))
  ELSE
    Bind(get(Log(s, Ev("run", w, "", 1, Undef)), w, "run"),
         LAMBDA s1 :
           LET value == s1.ret
               oldValue == s1.ws[w].value
           IN  IF s1.exc THEN s1
               ELSE IF shouldFire(s1, w, value, oldValue)
               THEN Bind(callCb([Log(s1, Ev("value", w, "", value, oldValue))
                                   EXCEPT !.ws[w].value = value],
                                w, value, oldValue),
                         LAMBDA s2 :
                           IF s2.exc /\ isUser(s2, w)
                           THEN handleError(s2, w, "callback")
                           ELSE s2)
               ELSE Log(s1, Ev("value", w, "", value, oldValue)))

\* evaluate that leaves dirty as it is
evaluateKeepDirty(s, w) ==
  Bind(get(s, w, "evaluate"),
       LAMBDA s1 : IF s1.exc THEN s1 ELSE [s1 EXCEPT !.ws[w].value = s1.ret])

\* Watcher.evaluate
evaluate(s, w) ==
  Bind(get(s, w, "evaluate"),
       LAMBDA s1 : IF s1.exc THEN s1
                   ELSE [s1 EXCEPT !.ws[w].value = s1.ret, !.ws[w].dirty = FALSE])

\* computedGetter of createComputedGetter, for the computed watcher k
computedGetter(s, k) ==
  Bind(IF s.ws[k].dirty
       THEN evaluate(Log(s, Ev("computedGetter", k, "", 1, s.ws[k].value)), k)
       ELSE Log(s, Ev("computedGetter", k, "", 0, s.ws[k].value)),
       LAMBDA s1 :
         IF s1.exc THEN s1
         ELSE IF s1.target # Null
         THEN [WatcherDepend(s1, k) EXCEPT
                 !.curReads[s1.target] = @ \cup s1.reads[k],
                 !.ret = s1.ws[k].value]
         ELSE [s1 EXCEPT !.ret = s1.ws[k].value])

\* ============================================================== the program
MAX_UPDATE_COUNT == 100

VARIABLES
  val,                 \* the value closed over by each reactive field
  subs,                \* Dep.subs: watcher ids and null slots
  depPending,          \* Dep._pending
  pendingCleanupDeps,  \* dep.ts: pendingCleanupDeps
  target,              \* Dep.target
  targetStack,         \* dep.ts: targetStack
  ws,                  \* the watchers, by id: options and fields
  queue, has, circular, waiting, flushing, index,   \* scheduler.ts
  callbacks, pending,  \* next-tick.ts
  timers,              \* flushCallbacks microtasks scheduled by timerFunc
  copies,              \* flushCallbacks: the copies not yet called
  pc,                  \* "idle", or the position inside flushCallbacks
  reads,               \* per watcher: the fields its latest evaluation read
  queuedLog,           \* watchers pushed on the queue since the batch began
  ranLog,              \* watchers whose run() the flush has called
  atStart,             \* the sorted queue when the flush started
  hit,                 \* watchers invalidated by a write before the flush
  getLog,              \* the calls of Watcher.get the last handler made
  queueCalls,          \* the calls of queueWatcher it made that changed the queue
  activatedChildren,   \* the kept-alive components activated during the patch
  tickLog,             \* the callbacks the script gave to nextTick: registered, invoked
  op,                  \* the handler that made the last step
  result,              \* what the last handler returned
  trace                \* the calls made by the last handler

reactVars == <<val, subs, depPending, pendingCleanupDeps, target, targetStack,
               ws, queue, has, circular, waiting, flushing, index, callbacks,
               pending, timers, copies, pc, reads, queuedLog, ranLog, atStart,
               hit, getLog, queueCalls, activatedChildren, tickLog, op, result,
               trace>>

VARIABLES
  arr,                 \* an observed array: its elements
  hasOb,               \* the values that carry an Observer as __ob__
  shouldObserve,       \* observer/index.ts: shouldObserve
  arrOp,               \* the last call on the array: method, arguments
  arrTrace             \* what that call did, in order

arrVars == <<arr, hasOb, shouldObserve, arrOp, arrTrace>>

VARIABLES
  oldVnodes,           \* the children of the previous render, as rendered
  oldCh,               \* updateChildren: oldCh (moved entries become undefined)
  newCh,               \* updateChildren: newCh (elm is set as nodes are patched)
  removeOnly,          \* updateChildren: removeOnly
  parentElm,           \* the child nodes of the parent element, in order
  patched,             \* has updateChildren returned
  domTrace             \* the calls it made to nodeOps and to helpers

patchVars == <<oldVnodes, oldCh, newCh, removeOnly, parentElm, patched, domTrace>>

VARIABLES
  pvOld,               \* patchVnode: oldVnode
  pvNew,               \* patchVnode: vnode, as the caller passed it
  pvOwner,             \* patchVnode: is ownerArray defined
  pvNode,              \* patchVnode: vnode when it returned (ownerArray[index])
  pvTrace,             \* the hooks and helpers patchVnode called
  pvDone               \* has patchVnode returned

nodeVars == <<pvOld, pvNew, pvOwner, pvNode, pvTrace, pvDone>>

VARIABLES
  tgt,                 \* the target object of set and del
  tgtOp,               \* the last call of set or del, and the target before
  heap                 \* the objects a container refers to, and which is in tgt

objVars == <<tgt, tgtOp, heap>>

auxVars == <<arrVars, patchVars, nodeVars, objVars>>

\* an object: per key whether it is an own property (none, plain: a data
\* property, reactive: defined by defineReactive) and its value; whether it
\* has an Observer as __ob__, the vmCount of that Observer, and whether it is
\* a readonly object; for an array its elements; for a component instance
\* the flag _isVue
Target(keys, vals, ob, vmCount, readonly) ==
  [keys |-> keys, vals |-> vals, ob |-> ob, vmCount |-> vmCount,
   readonly |-> readonly, isArray |-> FALSE, items |-> <<>>, isVue |-> FALSE,
   dep |-> "ob", raw |-> FALSE]

NoHeap == [cur |-> "", root |-> "", objs |-> <<>>, calls |-> 0]

NoTarget ==
  Target([k \in TKeys |-> "none"], [k \in TKeys |-> Undef], FALSE, 0, FALSE)

\* set and del have not been called
ObjIdle(t) ==
  /\ tgt = t
  /\ tgtOp = [name |-> "", key |-> "", val |-> Undef, before |-> t]
  /\ heap = NoHeap

\* a vnode as patchVnode sees it: id is its identity as an object, elm its
\* real node, ci its componentInstance, text its text (0: undefined), ch its
\* children (0: undefined, else the identity of the array), data whether it
\* has data with the hooks of a component placeholder, resolved whether
\* asyncFactory.resolved is defined
PNode(id, elm, key, st, cl, on, ap, rs, data, text, ch, ci) ==
  [id |-> id, elm |-> elm, key |-> key, isStatic |-> st, isCloned |-> cl,
   isOnce |-> on, isAsyncPlaceholder |-> ap, resolved |-> rs, data |-> data,
   text |-> text, ch |-> ch, ci |-> ci]

NoNode == PNode(0, 0, "", FALSE, FALSE, FALSE, FALSE, FALSE, FALSE, 0, 0, 0)

\* no vnode is being patched
NodeIdle ==
  /\ pvOld = NoNode /\ pvNew = NoNode /\ pvOwner = FALSE /\ pvNode = NoNode
  /\ pvTrace = <<>> /\ pvDone = TRUE

\* no patch is going on
PatchIdle ==
  /\ oldVnodes = <<>> /\ oldCh = <<>> /\ newCh = <<>> /\ removeOnly = FALSE
  /\ parentElm = <<>> /\ patched = TRUE /\ domTrace = <<>>

vars == <<reactVars, auxVars>>

\* the state a handler starts from, as a record; the logs of a flush start
\* again when no flush is waiting, and after the end of a flush with the
\* watchers its hooks queued
Cur ==
  [val |-> val, subs |-> subs, depPending |-> depPending,
   pendingCleanupDeps |-> pendingCleanupDeps, target |-> target,
   targetStack |-> targetStack, ws |-> ws, queue |-> queue, has |-> has,
   circular |-> circular, waiting |-> waiting, flushing |-> flushing,
   index |-> index, callbacks |-> callbacks, pending |-> pending,
   timers |-> timers, reads |-> reads, tgt |-> tgt, heap |-> heap,
   queuedLog |-> IF ~waiting THEN <<>>
                 ELSE IF op.name = "flushFinish" THEN queue ELSE queuedLog,
   ranLog |-> IF waiting /\ op.name # "flushFinish" THEN ranLog ELSE <<>>,
   curReads |-> [w \in DOMAIN ws |-> {}], ret |-> Undef, exc |-> FALSE,
   getLog |-> <<>>, queueCalls |-> <<>>, trace |-> <<>>,
   activatedChildren |-> activatedChildren, tickLog |-> tickLog]

\* the state a handler leaves
Commit(r) ==
  /\ val' = r.val /\ subs' = r.subs /\ depPending' = r.depPending
  /\ pendingCleanupDeps' = r.pendingCleanupDeps /\ target' = r.target
  /\ targetStack' = r.targetStack /\ ws' = r.ws /\ queue' = r.queue
  /\ has' = r.has /\ circular' = r.circular /\ waiting' = r.waiting
  /\ flushing' = r.flushing /\ index' = r.index /\ callbacks' = r.callbacks
  /\ pending' = r.pending /\ timers' = r.timers /\ reads' = r.reads
  /\ queuedLog' = r.queuedLog /\ ranLog' = r.ranLog
  /\ result' = r.ret /\ trace' = r.trace /\ getLog' = r.getLog
  /\ queueCalls' = r.queueCalls /\ activatedChildren' = r.activatedChildren
  /\ tickLog' = r.tickLog

\* the state after construction
Starts(r) ==
  /\ val = r.val /\ subs = r.subs /\ depPending = r.depPending
  /\ pendingCleanupDeps = r.pendingCleanupDeps /\ target = r.target
  /\ targetStack = r.targetStack /\ ws = r.ws /\ queue = r.queue
  /\ has = r.has /\ circular = r.circular /\ waiting = r.waiting
  /\ flushing = r.flushing /\ index = r.index /\ callbacks = r.callbacks
  /\ pending = r.pending /\ timers = r.timers /\ reads = r.reads
  /\ queuedLog = r.queuedLog /\ ranLog = r.ranLog
  /\ result = r.ret /\ trace = r.trace /\ getLog = r.getLog
  /\ queueCalls = r.queueCalls /\ activatedChildren = r.activatedChildren
  /\ tickLog = r.tickLog

Op(name, w, f, x) == [name |-> name, w |-> w, f |-> f, x |-> x]

\* ------------------------------------------------------- watcher options
Getter(k, f, g, h, c) == [k |-> k, f |-> f, g |-> g, h |-> h, c |-> c]
ReadField(f) == Getter("field", f, f, f, Null)
ReadCond(f, g, h) == Getter("cond", f, g, h, Null)
ReadComputedProp(c) == Getter("computed", "a", "a", "a", c)
ReadCondComputed(f, g, c) == Getter("condc", f, g, g, c)
ReadObj(f) == Getter("obj", f, f, f, Null)
ReadKeys == Getter("keys", "a", "a", "a", Null)
ReadContainer == Getter("container", "a", "a", "a", Null)
ReadThrow(f) == Getter("throw", f, f, f, Null)
ReadThrowIf(f) == Getter("throwIf", f, f, f, Null)
ReadThen(f, c) == Getter("then", f, f, f, c)
ReadSetIf(f, g) == Getter("setIf", f, g, f, Null)
ReadStopIf(f, g) == Getter("stopIf", f, g, g, Null)

Cb(k, f, v, w) == [k |-> k, f |-> f, v |-> v, w |-> w]
CbNoop == Cb("noop", "a", 0, Null)
CbSet(f, v) == Cb("set", f, v, Null)
CbTeardown(w) == Cb("teardown", "a", 0, w)
CbThrow == Cb("throw", "a", 0, Null)
CbDestroyOnce == Cb("destroyOnce", "a", 0, Null)
CbToggle(f) == Cb("toggle", f, 0, Null)

\* the fields of the component that a render watcher belongs to: _vnode,
\* when its render function throws, the option renderError (none, ok: it
\* returns a vnode, throws) and whether the build is a development build
Vm(vnode, throwsWhen, renderError, dev) ==
  [vnode |-> vnode, throwsWhen |-> throwsWhen, renderError |-> renderError,
   dev |-> dev, isMounted |-> TRUE, updated |-> CbNoop, keptAlive |-> FALSE,
   isBeingDestroyed |-> FALSE, isDestroyed |-> FALSE,
   beforeDestroy |-> CbNoop, destroyed |-> CbNoop, called |-> FALSE]
NoVm == Vm("null", 1, "none", FALSE)

Options(lazy, sync, user, deep, before, getter, cb) ==
  [lazy |-> lazy, sync |-> sync, user |-> user, deep |-> deep, post |-> FALSE,
   noRecurse |-> FALSE, before |-> before, getter |-> getter, cb |-> cb,
   vm |-> NoVm]

\* lifecycle.ts mountComponent: new Watcher(vm, updateComponent, noop, {before}, true)
RenderWatcher(getter) == Options(FALSE, FALSE, FALSE, FALSE, TRUE, getter, CbNoop)
\* the render watcher of a component whose render function reads f
ComponentWatcher(f, throwsWhen, renderError, dev) ==
  [RenderWatcher(Getter("render", f, f, f, Null))
     EXCEPT !.vm = Vm("null", throwsWhen, renderError, dev)]
\* state.ts initComputed: new Watcher(vm, getter, noop, {lazy: true})
ComputedWatcher(getter) == Options(TRUE, FALSE, FALSE, FALSE, FALSE, getter, CbNoop)
\* state.ts $watch: options.user = true
UserWatcher(getter, cb) == Options(FALSE, FALSE, TRUE, FALSE, FALSE, getter, cb)
SyncWatcher(getter, cb) == Options(FALSE, TRUE, TRUE, FALSE, FALSE, getter, cb)
DeepWatcher(getter, cb) == Options(FALSE, FALSE, TRUE, TRUE, FALSE, getter, cb)
\* a watcher of the post category: watcher.post = true
\* new Watcher(vm, getter, cb): a watcher Vue creates for itself
InternalWatcher(getter, cb) == [UserWatcher(getter, cb) EXCEPT !.user = FALSE]
PostWatcher(getter, cb) == [UserWatcher(getter, cb) EXCEPT !.post = TRUE]

\* the Watcher constructor: the fields are set, and a watcher that is not
\* lazy is evaluated
newWatcher(s, o) ==
  LET id == Len(s.ws) + 1
      w0 == [lazy |-> o.lazy, sync |-> o.sync, user |-> o.user, deep |-> o.deep,
             post |-> o.post, noRecurse |-> o.noRecurse, before |-> o.before,
             getter |-> o.getter, cb |-> o.cb, vm |-> o.vm,
             active |-> TRUE, dirty |-> o.lazy, value |-> Undef,
             deps |-> <<>>, newDeps |-> <<>>, depIds |-> {}, newDepIds |-> {}]
      s0 == [s EXCEPT !.ws = Append(@, w0),
                      !.has = [i \in 1..id |-> "undefined"],
                      !.circular = [i \in 1..id |-> 0],
                      !.reads = [i \in 1..id |-> IF i < id THEN s.reads[i] ELSE {}],
                      !.curReads = [i \in 1..id |-> {}]]
      s1 == Log(s0, Ev("new", id, "", Undef, Undef))
  IN  IF o.lazy THEN s1
      ELSE Bind(get(s1, id, "ctor"),
                LAMBDA s2 : [s2 EXCEPT !.ws[id].value = s2.ret])

RECURSIVE construct(_, _, _)
construct(s, os, i) ==
  IF i > Len(os) THEN s ELSE construct(newWatcher(s, os[i]), os, i + 1)

\* the state before any watcher exists
Empty(v0) ==
  [val |-> v0, subs |-> [d \in Deps |-> <<>>],
   depPending |-> [d \in Deps |-> FALSE], pendingCleanupDeps |-> <<>>,
   target |-> Null, targetStack |-> <<>>, ws |-> <<>>, queue |-> <<>>,
   has |-> <<>>, circular |-> <<>>, waiting |-> FALSE, flushing |-> FALSE,
   index |-> 0, callbacks |-> <<>>, pending |-> FALSE, timers |-> 0,
   reads |-> <<>>, tgt |-> NoTarget, heap |-> NoHeap,
   queuedLog |-> <<>>, ranLog |-> <<>>,
   curReads |-> <<>>, ret |-> Undef, exc |-> FALSE, getLog |-> <<>>,
   queueCalls |-> <<>>, activatedChildren |-> <<>>, trace |-> <<>>,
   tickLog |-> [reg |-> <<>>, ran |-> <<>>]]

\* the watchers of a component, in the order of their construction
Scenarios ==
  { <<UserWatcher(ReadField("a"), CbNoop),
      UserWatcher(ReadCond("a", "b", "c"), CbNoop),
      RenderWatcher(ReadField("b"))>>,
    <<ComputedWatcher(ReadField("a")),
      UserWatcher(ReadCondComputed("b", "c", 1), CbNoop),
      RenderWatcher(ReadComputedProp(1))>>,
    <<UserWatcher(ReadField("a"), CbSet("b", 1)),
      SyncWatcher(ReadField("b"), CbSet("c", 1)),
      RenderWatcher(ReadCond("c", "a", "b"))>> }

\* the watchers of a scenario constructed over the target object t
InitWith(scs, t) ==
  \E sc \in scs :
    /\ Starts(construct([Empty([f \in Fields |-> 0]) EXCEPT !.tgt = t], sc, 1))
    /\ copies = <<>> /\ pc = "idle" /\ atStart = <<>> /\ hit = {}
    /\ op = Op("init", Null, "", 0)
    /\ ObjIdle(t)

InitFrom(scs) == InitWith(scs, NoTarget)

WIds == DOMAIN ws

\* ------------------------------------------------------- script statements
\* obj.f = v
SetField(f, v) ==
  /\ pc = "idle"
  /\ LET r == reactiveSetter(Cur, f, v)
     IN  /\ Commit([r EXCEPT !.exc = FALSE])
         /\ hit' = (IF waiting THEN hit ELSE {}) \cup
                   (IF hasChanged(val[f], v)
                    THEN {w \in WIds : /\ ws[w].active /\ ~ws[w].lazy /\ ~ws[w].sync
                                       /\ f \in reads[w]}
                    ELSE {})
  /\ op' = Op("set", Null, f, IF hasChanged(val[f], v) THEN 1 ELSE 0)
  /\ atStart' = IF waiting THEN atStart ELSE <<>>
  /\ UNCHANGED <<copies, pc, auxVars>>

\* vm.k, read outside any watcher, for the computed watcher k
ReadComputed(k) ==
  /\ pc = "idle"
  /\ ws[k].lazy
  /\ Commit([computedGetter(Cur, k) EXCEPT !.exc = FALSE])
  /\ op' = Op("read", k, "", IF ws[k].dirty THEN 1 ELSE 0)
  /\ atStart' = IF waiting THEN atStart ELSE <<>>
  /\ hit' = IF waiting THEN hit ELSE {}
  /\ UNCHANGED <<copies, pc, auxVars>>

\* unwatch(): watcher.teardown()
Teardown(w) ==
  /\ pc = "idle"
  /\ ws[w].user
  /\ Commit(teardown(Cur, w))
  /\ op' = Op("teardown", w, "", 0)
  /\ atStart' = IF waiting THEN atStart ELSE <<>>
  /\ hit' = IF waiting THEN hit ELSE {}
  /\ UNCHANGED <<copies, pc, auxVars>>

\* -------------------------------------------------------------- microtasks
\* flushCallbacks, up to its loop over the copies
FlushCallbacks ==
  /\ pc = "idle"
  /\ timers > 0
  /\ Commit([Cur EXCEPT !.pending = FALSE, !.callbacks = <<>>, !.timers = @ - 1])
  /\ copies' = callbacks
  /\ pc' = IF callbacks = <<>> THEN "idle" ELSE "copies"
  /\ op' = Op("flushCallbacks", Null, "", 0)
  /\ UNCHANGED <<atStart, hit, auxVars>>

\* where flushCallbacks goes on after a copy has returned
AfterCopy(rest) == IF rest = <<>> THEN "idle" ELSE "copies"

\* copies[i]() for the callback that is flushSchedulerQueue: up to its loop
FlushBegin ==
  /\ pc = "copies"
  /\ Head(copies) = "flush"
  /\ LET q == sortQueue(Cur, queue)
     IN  /\ Commit([Cur EXCEPT !.flushing = TRUE, !.queue = q, !.index = 0])
         /\ atStart' = q
         /\ pc' = IF Len(q) > 0 THEN "flush" ELSE "finish"
  /\ copies' = Tail(copies)
  /\ op' = Op("flushBegin", Null, "", 0)
  /\ UNCHANGED <<hit, auxVars>>

\* callHook(vm, hook): dependency collection is off while the handlers run.
\* The handler destroyOnce is
\*   function () { if (!this.called) { this.called = true; this.$destroy() } }
RECURSIVE destroy(_, _)
RECURSIVE callHook(_, _, _)
callHook(s, w, hook) ==
  LET h == CASE hook = "updated" -> s.ws[w].vm.updated
             [] hook = "beforeDestroy" -> s.ws[w].vm.beforeDestroy
             [] hook = "destroyed" -> s.ws[w].vm.destroyed
             [] OTHER -> CbNoop
      s1 == pushTarget(Log(s, Ev("callHook", w, hook, Undef, Undef)), Null)
      s2 == CASE h.k = "set" -> reactiveSetter(s1, h.f, h.v)
               [] h.k = "destroyOnce" /\ ~s1.ws[w].vm.called ->
                    destroy([s1 EXCEPT !.ws[w].vm.called = TRUE], w)
               [] OTHER -> s1
  IN  popTarget(s2)

\* vm._scope.stop(): teardown() of the watchers the instance owns, from
\* the watcher i on
RECURSIVE scopeStop(_, _)
scopeStop(s, i) ==
  IF i > Len(s.ws) THEN s ELSE scopeStop(teardown(s, i), i + 1)

\* Vue.prototype.$destroy, for the instance of the render watcher w
destroy(s, w) ==
  IF s.ws[w].vm.isBeingDestroyed THEN s
  ELSE LET s1 == callHook(s, w, "beforeDestroy")
           s2 == scopeStop([s1 EXCEPT !.ws[w].vm.isBeingDestroyed = TRUE], 1)
           s3 == IF s2.tgt.ob
                 THEN Log([s2 EXCEPT !.tgt.vmCount = @ - 1],
                          Ev("vmCount", w, "", s2.tgt.vmCount - 1, Undef))
                 ELSE s2
           s4 == Log([s3 EXCEPT !.ws[w].vm.isDestroyed = TRUE],
                     Ev("patch", w, "null", s3.ws[w].vm.vnode, Undef))
       IN  callHook(s4, w, "destroyed")

\* the loop of flushSchedulerQueue up to watcher.run(): before(), which for
\* a render watcher calls the beforeUpdate hooks of a component that is
\* mounted and not destroyed, and has[id] = null
beforeRun(s, w) ==
  LET s1 == IF s.ws[w].before THEN Log(s, Ev("before", w, "", Undef, Undef)) ELSE s
      s2 == IF /\ s.ws[w].before /\ s.ws[w].vm.isMounted
               /\ ~s.ws[w].vm.isDestroyed
            THEN callHook(s1, w, "beforeUpdate")
            ELSE s1
  IN  [s2 EXCEPT !.has[w] = "null", !.ranLog = Append(@, w)]

\* a dev build without the check of circular updates
overLimitNever(count) == FALSE

\* circular[id] > MAX_UPDATE_COUNT
overLimit(count) == count > MAX_UPDATE_COUNT

\* one pass of the loop of flushSchedulerQueue, on queue[index]
FlushStep ==
  /\ pc = "flush"
  /\ index < Len(queue)
  /\ Len(queue) <= MaxQueue
  /\ \E w \in {queue[index + 1]} : \E s2 \in {run(beforeRun(Cur, w), w)} :
       LET again == s2.has[w] = "true"
           count == IF again THEN s2.circular[w] + 1 ELSE s2.circular[w]
           s3 == [s2 EXCEPT !.circular[w] = count]
       IN  IF s2.exc
           THEN \* the exception leaves flushSchedulerQueue; the wrapper of
                \* nextTick catches it and hands it to handleError
                /\ Commit(Log([s2 EXCEPT !.exc = FALSE],
                              Ev("error", w, "nextTick", Undef, Undef)))
                /\ pc' = AfterCopy(copies)
           ELSE IF again /\ overLimit(count)
           THEN /\ Commit(Log(s3, Ev("warn", w, "loop", Undef, Undef)))
                /\ pc' = "finish"
           ELSE /\ Commit([s3 EXCEPT !.index = @ + 1])
                /\ pc' = IF s2.index + 1 < Len(s2.queue) THEN "flush" ELSE "finish"
  /\ op' = Op("flushStep", queue[index + 1], "", 0)
  /\ UNCHANGED <<copies, atStart, hit, auxVars>>

\* vm.$destroy() called by the script
Destroy(w) ==
  /\ pc = "idle"
  /\ ws[w].before
  /\ \E r \in {destroy(Cur, w)} :
       /\ Commit([r EXCEPT !.exc = FALSE, !.ret = Undef])
       /\ tgt' = r.tgt
  /\ op' = Op("destroy", w, "", IF ws[w].vm.isBeingDestroyed THEN 1 ELSE 0)
  /\ atStart' = IF waiting THEN atStart ELSE <<>>
  /\ hit' = IF waiting THEN hit ELSE {}
  /\ UNCHANGED <<copies, pc, arrVars, patchVars, nodeVars, tgtOp, heap>>

\* callActivatedHooks(queue), from its element i on
RECURSIVE callActivatedHooks(_, _, _)
callActivatedHooks(s, q, i) ==
  IF i > Len(q) THEN s
  ELSE callActivatedHooks(callHook(s, q[i], "activated"), q, i + 1)

\* the loop of callUpdatedHooks over the render watchers of the queue
RECURSIVE updatedLoop(_, _, _)
updatedLoop(s, q, i) ==
  IF i = 0 THEN s
  ELSE LET w == q[i]
           s1 == IF s.ws[w].vm.isMounted /\ ~s.ws[w].vm.isDestroyed
                 THEN callHook(s, w, "updated")
                 ELSE s
       IN  updatedLoop(s1, q, i - 1)

\* callUpdatedHooks(queue): let i = queue.length; while (i--) ..., where
\* the entries with vm._watcher === watcher are the render watchers
callUpdatedHooks(s, q) ==
  Bind(SelectSeq(q, LAMBDA w : s.ws[w].before),
       LAMBDA rq : updatedLoop(s, rq, Len(rq)))

\* the end of a flush with the hooks called before the state is reset
flushEndHooksFirst(s) ==
  LET s1 == callActivatedHooks(s, s.activatedChildren, 1)
      s2 == callUpdatedHooks(s1, s.queue)
      s3 == Log(resetSchedulerState(s2), Ev("reset", Null, "", Undef, Undef))
  IN  depCleanupDeps(Log(s3, Ev("cleanupDeps", Null, "", Undef, Undef)))

\* flushSchedulerQueue after its loop: the copies of the two queues,
\* resetSchedulerState(), the hooks, cleanupDeps()
flushEnd(s) ==
  LET s1 == Log(resetSchedulerState(s), Ev("reset", Null, "", Undef, Undef))
      s2 == callActivatedHooks(s1, s.activatedChildren, 1)
      s3 == callUpdatedHooks(s2, s.queue)
  IN  depCleanupDeps(Log(s3, Ev("cleanupDeps", Null, "", Undef, Undef)))

FlushFinish ==
  /\ pc = "finish"
  /\ \E r \in {flushEnd(Cur)} : Commit(r)
  /\ pc' = AfterCopy(copies)
  /\ op' = Op("flushFinish", Null, "", 0)
  /\ UNCHANGED <<copies, atStart, hit, auxVars>>


\* ================================================================== arrays
\* An observed array and the seven intercepted methods (observer/array.ts).
\* The elements are a primitive ("1"), a plain object ("o1") and a frozen
\* plain object ("fz"); the objects have no object-valued property.
MaxArrLen == 2
MaxArgs == 2

Elements == {"1", "o1", "fz"}
isPlainObject(v) == v \in {"o1", "fz"}
isExtensible(v) == v = "o1"

\* the sequences over S of length lo..hi
SeqsOf(S, lo, hi) == UNION {[1..n -> S] : n \in lo..hi}

\* the order the script's compareFn gives, for arr.sort(compareFn)
Rank(v) == CASE v = "1" -> 1 [] v = "fz" -> 2 [] v = "o1" -> 3
            [] v = "e1" -> 4 [] v = "e2" -> 5 [] v = "raw" -> 6 [] v = "N" -> 7

\* methodsToPatch
methodsToPatch == {"push", "pop", "shift", "unshift", "splice", "sort", "reverse"}

AEv(e, a) == [e |-> e, arr |-> a.arr, hasOb |-> a.hasOb]
ALog(a, e) == [a EXCEPT !.trace = Append(@, AEv(e, a))]

\* toggleObserving
toggleObserving(a, value) == [a EXCEPT !.shouldObserve = value]

\* new Observer(value) for a plain object without object-valued properties
newObserver(a, v) == ALog([a EXCEPT !.hasOb = @ \cup {v}], "observer")

\* observe(value)
observe(a, v) ==
  IF v \in a.hasOb THEN a
  ELSE IF a.shouldObserve /\ isPlainObject(v) /\ isExtensible(v)
  THEN newObserver(a, v)
  ELSE a

\* Observer.observeArray, from item i on
RECURSIVE observeArrayFrom(_, _, _)
observeArrayFrom(a, items, i) ==
  IF i > Len(items) THEN a
  ELSE observeArrayFrom(observe(a, items[i]), items, i + 1)

observeArray(a, items) == observeArrayFrom(a, items, 1)

\* Array.prototype.sort with the compareFn above (stable)
RECURSIVE nativeSort(_)
nativeSort(q) ==
  IF q = <<>> THEN q
  ELSE LET rest == nativeSort(Tail(q))
           x == Head(q)
           k == Cardinality({j \in 1..Len(rest) : Rank(rest[j]) < Rank(x)})
       IN  SubSeq(rest, 1, k) \o <<x>> \o SubSeq(rest, k + 1, Len(rest))

nativeReverse(q) == [i \in 1..Len(q) |-> q[Len(q) + 1 - i]]

\* Array.prototype.splice(start, deleteCount, ...items)
nativeSplice(q, args) ==
  LET len == Len(q)
      st == IF args[1] < 0
            THEN (IF len + args[1] < 0 THEN 0 ELSE len + args[1])
            ELSE (IF args[1] > len THEN len ELSE args[1])
      dc0 == IF args[2] < 0 THEN 0 ELSE args[2]
      dc == IF dc0 > len - st THEN len - st ELSE dc0
  IN  SubSeq(q, 1, st) \o SubSeq(args, 3, Len(args)) \o SubSeq(q, st + dc + 1, len)

\* original.apply(this, args): the array after the native method
original(q, method, args) ==
  CASE method = "push" -> q \o args
    [] method = "pop" -> IF q = <<>> THEN q ELSE SubSeq(q, 1, Len(q) - 1)
    [] method = "shift" -> IF q = <<>> THEN q ELSE Tail(q)
    [] method = "unshift" -> args \o q
    [] method = "splice" -> nativeSplice(q, args)
    [] method = "sort" -> nativeSort(q)
    [] method = "reverse" -> nativeReverse(q)

\* the switch of mutator: the arguments that are new elements
insertedOf(method, args) ==
  CASE method \in {"push", "unshift"} -> args
    [] method = "splice" -> SubSeq(args, 3, Len(args))
    [] OTHER -> <<>>

\* a mutator that notifies before it observes what was inserted
mutatorNotifyFirst(a, method, args) ==
  LET a1 == ALog([a EXCEPT !.arr = original(a.arr, method, args)], "native")
  IN  observeArray(ALog(a1, "notify"), insertedOf(method, args))

\* mutator: the native method, observeArray(inserted), ob.dep.notify()
mutator(a, method, args) ==
  LET a1 == ALog([a EXCEPT !.arr = original(a.arr, method, args)], "native")
      a2 == observeArray(a1, insertedOf(method, args))
  IN  ALog(a2, "notify")

ArrCur == [arr |-> arr, hasOb |-> hasOb, shouldObserve |-> shouldObserve,
           trace |-> <<>>]

\* arr[method](...args), called by the script
ArrayCall(method, args) ==
  /\ Len(original(arr, method, args)) <= MaxArrLen
  /\ \E r \in {mutator(ArrCur, method, args)} :
         /\ arr' = r.arr
         /\ hasOb' = r.hasOb
         /\ arrTrace' = r.trace
  /\ UNCHANGED <<shouldObserve, reactVars, patchVars, nodeVars, objVars>>

Called(method, args) == [m |-> method, args |-> args, so |-> shouldObserve]

Push(items) ==
  /\ ArrayCall("push", items)
  /\ arrOp' = Called("push", items)

Pop ==
  /\ ArrayCall("pop", <<>>)
  /\ arrOp' = Called("pop", <<>>)

Shift ==
  /\ ArrayCall("shift", <<>>)
  /\ arrOp' = Called("shift", <<>>)

Unshift(items) ==
  /\ ArrayCall("unshift", items)
  /\ arrOp' = Called("unshift", items)

Splice(start, deleteCount, items) ==
  /\ ArrayCall("splice", <<start, deleteCount>> \o items)
  /\ arrOp' = Called("splice", <<start, deleteCount>> \o items)

Sort ==
  /\ ArrayCall("sort", <<>>)
  /\ arrOp' = Called("sort", <<>>)

Reverse ==
  /\ ArrayCall("reverse", <<>>)
  /\ arrOp' = Called("reverse", <<>>)

\* toggleObserving(value), as initProps and updateChildComponent call it
\* around code of the component
ToggleObserving(value) ==
  /\ value # shouldObserve
  /\ shouldObserve' = value
  /\ arrOp' = Called("toggleObserving", <<>>)
  /\ arrTrace' = <<>>
  /\ UNCHANGED <<arr, hasOb, reactVars, patchVars, nodeVars, objVars>>

\* observe(arr) of an array literal: new Observer, which observes the elements
ArrayObserved(q) ==
  /\ arr = q
  /\ hasOb = {q[i] : i \in {j \in 1..Len(q) : isExtensible(q[j])}}
  /\ shouldObserve = TRUE
  /\ arrOp = [m |-> "observe", args |-> <<>>, so |-> TRUE]
  /\ arrTrace = <<>>

InitArray ==
  /\ InitFrom({<<>>})
  /\ PatchIdle /\ NodeIdle
  /\ \E q \in SeqsOf(Elements, 0, 1) : ArrayObserved(q)

NextArray ==
  \/ \E items \in SeqsOf(Elements, 1, MaxArgs) : Push(items)
  \/ Pop
  \/ Shift
  \/ \E items \in SeqsOf(Elements, 1, MaxArgs) : Unshift(items)
  \/ \E start \in (0 - 1)..MaxArrLen : \E deleteCount \in 0..1 :
       \E items \in SeqsOf(Elements, 0, MaxArgs) : Splice(start, deleteCount, items)
  \/ Sort
  \/ Reverse
  \/ \E value \in BOOLEAN : ToggleObserving(value)

SpecArray == InitArray /\ [][NextArray]_vars


\* ========================================================== updateChildren
\* The children diff of patch (vdom/create-element.ts) on element vnodes that
\* have a key, a tag and no children.  A real node is a number; the nodes of
\* the old children are 1..Len(oldCh), created nodes take the next numbers.
MaxCh == 4

Keys == {"a", "b", "c", "d"}

\* a vnode: data is undef (no data), noattrs (data without attrs), notype
\* (attrs without type) or the type attribute; asyncFactory is none or the
\* factory
VNode(key, tag, elm) ==
  [key |-> key, tag |-> tag, elm |-> elm, isComment |-> FALSE, data |-> "undef",
   asyncFactory |-> "none", isAsyncPlaceholder |-> FALSE]
NoVnode == VNode("", "", 0)
NoElm == 0
isUndef(v) == v = NoVnode
isDef(v) == v # NoVnode

\* ch[i] of a JavaScript array: undefined outside its indices
At(ch, i) == IF i \in 1..Len(ch) THEN ch[i] ELSE NoVnode

DEv(o, elm, ref) == [o |-> o, elm |-> elm, ref |-> ref]
DLog(p, o, elm, ref) == [p EXCEPT !.trace = Append(@, DEv(o, elm, ref))]

\* nodeOps.nextSibling
nextSibling(dom, elm) ==
  IF IndexOf(dom, elm) = 0 \/ IndexOf(dom, elm) = Len(dom) THEN NoElm
  ELSE dom[IndexOf(dom, elm) + 1]

Without(dom, elm) ==
  IF IndexOf(dom, elm) = 0 THEN dom
  ELSE SubSeq(dom, 1, IndexOf(dom, elm) - 1) \o
       SubSeq(dom, IndexOf(dom, elm) + 1, Len(dom))

\* nodeOps.insertBefore(parent, elm, ref): Node.insertBefore
insertBefore(p, elm, ref) ==
  LET d == Without(p.dom, elm)
      d1 == IF ref = elm THEN p.dom
            ELSE IF ref = NoElm THEN Append(d, elm)
            ELSE InsertAt(d, IndexOf(d, ref), elm)
  IN  DLog([p EXCEPT !.dom = d1], "insertBefore", elm, ref)

\* nodeOps.appendChild
appendChild(p, elm) ==
  DLog([p EXCEPT !.dom = Append(Without(p.dom, elm), elm)], "appendChild", elm, NoElm)

\* removeNode(el): removeChild when the node has a parent
removeNode(p, elm) ==
  IF IndexOf(p.dom, elm) = 0 THEN p
  ELSE DLog([p EXCEPT !.dom = Without(p.dom, elm)], "removeChild", elm, NoElm)

\* insert(parent, elm, ref)
insert(p, elm, ref) ==
  IF ref # NoElm
  THEN (IF IndexOf(p.dom, ref) # 0 THEN insertBefore(p, elm, ref) ELSE p)
  ELSE appendChild(p, elm)

\* createElm(vnode, ..., parentElm, refElm, false, newCh, i) for an element
\* vnode without children
createElm(p, i, refElm) ==
  LET elm == p.nextElm
      p1 == [p EXCEPT !.newCh[i].elm = elm, !.nextElm = elm + 1]
  IN  insert(DLog(p1, "createElement", elm, NoElm), elm, refElm)

\* patchVnode(oldVnode, newCh[i]) for element vnodes without children
patchVnode(p, oldVnode, i) ==
  DLog([p EXCEPT !.newCh[i].elm = oldVnode.elm], "patchVnode", oldVnode.elm, NoElm)

\* addVnodes
RECURSIVE addVnodes(_, _, _, _)
addVnodes(p, refElm, startIdx, endIdx) ==
  IF startIdx > endIdx THEN p
  ELSE addVnodes(createElm(p, startIdx, refElm), refElm, startIdx + 1, endIdx)

\* removeVnodes
RECURSIVE removeVnodes(_, _, _)
removeVnodes(p, startIdx, endIdx) ==
  IF startIdx > endIdx THEN p
  ELSE LET ch == p.oldCh[startIdx]
       IN  removeVnodes(IF isDef(ch) THEN removeNode(p, ch.elm) ELSE p,
                        startIdx + 1, endIdx)

\* createKeyToOldIdx: the last index of each key between the two pointers
createKeyToOldIdx(children, beginIdx, endIdx) ==
  [key \in Keys |->
     LET is == {i \in beginIdx..endIdx : children[i].key = key}
     IN  IF is = {} THEN 0 ELSE CHOOSE i \in is : \A j \in is : j <= i]

\* the local variables of updateChildren that follow the four indices
oldStartVnode(p) == At(p.oldCh, p.oldStartIdx)
oldEndVnode(p) == At(p.oldCh, p.oldEndIdx)
newStartVnode(p) == At(p.newCh, p.newStartIdx)
newEndVnode(p) == At(p.newCh, p.newEndIdx)

\* isTextInputType: text, number, password, search, email, tel, url
isTextInputType(t) == t \in {"text", "password"}
\* isDef(i = a.data) && isDef(i = i.attrs) && i.type
typeOf(v) == CASE v.data \in {"undef", "noattrs"} -> "false"
               [] v.data = "notype" -> "undefined"
               [] OTHER -> v.data
sameInputType(a, b) ==
  \/ a.tag # "input"
  \/ typeOf(a) = typeOf(b)
  \/ isTextInputType(typeOf(a)) /\ isTextInputType(typeOf(b))
\* asyncFactory.error of the factory g is set
factoryError(f) == f = "g"

\* sameVnode that does not compare the keys
sameVnodeByTag(a, b) == a.tag = b.tag

\* sameVnode
sameVnode(a, b) ==
  /\ a.key = b.key
  /\ a.asyncFactory = b.asyncFactory
  /\ \/ /\ a.tag = b.tag
        /\ a.isComment = b.isComment
        /\ (a.data # "undef") = (b.data # "undef")
        /\ sameInputType(a, b)
     \/ a.isAsyncPlaceholder /\ ~factoryError(b.asyncFactory)

\* branch sameVnode(oldStartVnode, newStartVnode)
startToStart(p) ==
  LET p1 == patchVnode(p, oldStartVnode(p), p.newStartIdx)
  IN  [p1 EXCEPT !.oldStartIdx = @ + 1, !.newStartIdx = @ + 1]

\* branch sameVnode(oldEndVnode, newEndVnode)
endToEnd(p) ==
  LET p1 == patchVnode(p, oldEndVnode(p), p.newEndIdx)
  IN  [p1 EXCEPT !.oldEndIdx = @ - 1, !.newEndIdx = @ - 1]

\* the branch below, moving the node before the old end node, not after it
startToEndBeforeEnd(p) ==
  LET p1 == patchVnode(p, oldStartVnode(p), p.newEndIdx)
      p2 == IF p.canMove
            THEN insertBefore(p1, oldStartVnode(p).elm, oldEndVnode(p).elm)
            ELSE p1
  IN  [p2 EXCEPT !.oldStartIdx = @ + 1, !.newEndIdx = @ - 1]

\* branch sameVnode(oldStartVnode, newEndVnode): the node moved right
startToEnd(p) ==
  LET p1 == patchVnode(p, oldStartVnode(p), p.newEndIdx)
      p2 == IF p.canMove
            THEN insertBefore(p1, oldStartVnode(p).elm,
                              nextSibling(p1.dom, oldEndVnode(p).elm))
            ELSE p1
  IN  [p2 EXCEPT !.oldStartIdx = @ + 1, !.newEndIdx = @ - 1]

\* the branch below, patching the node without moving it
endToStartNoMove(p) ==
  LET p1 == patchVnode(p, oldEndVnode(p), p.newStartIdx)
  IN  [p1 EXCEPT !.oldEndIdx = @ - 1, !.newStartIdx = @ + 1]

\* branch sameVnode(oldEndVnode, newStartVnode): the node moved left
endToStart(p) ==
  LET p1 == patchVnode(p, oldEndVnode(p), p.newStartIdx)
      p2 == IF p.canMove
            THEN insertBefore(p1, oldEndVnode(p).elm, oldStartVnode(p).elm)
            ELSE p1
  IN  [p2 EXCEPT !.oldEndIdx = @ - 1, !.newStartIdx = @ + 1]

\* the first time the last branch is taken: oldKeyToIdx is built
keyMap(p) ==
  IF p.keyMapBuilt THEN p
  ELSE DLog([p EXCEPT !.oldKeyToIdx =
                        createKeyToOldIdx(p.oldCh, p.oldStartIdx, p.oldEndIdx),
                      !.keyMapBuilt = TRUE],
            "createKeyToOldIdx", NoElm, NoElm)

\* the last branch with a new element whatever oldKeyToIdx holds
byKeyAlwaysCreate(p) ==
  Bind(keyMap(p),
       LAMBDA p1 :
         [createElm(p1, p.newStartIdx, oldStartVnode(p).elm)
            EXCEPT !.newStartIdx = @ + 1])

\* the last branch: look the key of newStartVnode up among the old children
byKey(p) ==
  Bind(keyMap(p),
       LAMBDA p1 :
         LET idxInOld == p1.oldKeyToIdx[newStartVnode(p).key]
             vnodeToMove == At(p1.oldCh, idxInOld)
         IN  [(IF idxInOld = 0
               THEN createElm(p1, p.newStartIdx, oldStartVnode(p).elm)
               ELSE IF isUndef(vnodeToMove)
               THEN \* sameVnode(undefined, newStartVnode) reads undefined.key
                    [DLog(p1, "TypeError", NoElm, NoElm) EXCEPT !.threw = TRUE]
               ELSE IF sameVnode(vnodeToMove, newStartVnode(p))
               THEN Bind([patchVnode(p1, vnodeToMove, p.newStartIdx)
                            EXCEPT !.oldCh[idxInOld] = NoVnode],
                         LAMBDA q2 :
                           IF p.canMove
                           THEN insertBefore(q2, vnodeToMove.elm, oldStartVnode(p).elm)
                           ELSE q2)
               ELSE createElm(p1, p.newStartIdx, oldStartVnode(p).elm))
                EXCEPT !.newStartIdx = @ + 1])

\* the while loop of updateChildren
RECURSIVE updateChildrenLoop(_)
updateChildrenLoop(p) ==
  IF p.threw \/ ~(p.oldStartIdx <= p.oldEndIdx /\ p.newStartIdx <= p.newEndIdx)
  THEN p
  ELSE IF isUndef(oldStartVnode(p))
  THEN updateChildrenLoop([p EXCEPT !.oldStartIdx = @ + 1])
  ELSE IF isUndef(oldEndVnode(p))
  THEN updateChildrenLoop([p EXCEPT !.oldEndIdx = @ - 1])
  ELSE IF sameVnode(oldStartVnode(p), newStartVnode(p))
  THEN updateChildrenLoop(startToStart(p))
  ELSE IF sameVnode(oldEndVnode(p), newEndVnode(p))
  THEN updateChildrenLoop(endToEnd(p))
  ELSE IF sameVnode(oldStartVnode(p), newEndVnode(p))
  THEN updateChildrenLoop(startToEnd(p))
  ELSE IF sameVnode(oldEndVnode(p), newStartVnode(p))
  THEN updateChildrenLoop(endToStart(p))
  ELSE updateChildrenLoop(byKey(p))

\* checkDuplicateKeys(children), called in a development build: a warning
\* for each child whose key an earlier child has
RECURSIVE checkDuplicateKeys(_, _)
checkDuplicateKeys(p, i) ==
  IF i > Len(p.newCh) THEN p
  ELSE checkDuplicateKeys(
         IF \E j \in 1..(i - 1) : p.newCh[j].key = p.newCh[i].key
         THEN DLog(p, "warn", NoElm, NoElm) ELSE p, i + 1)

\* updateChildren(parentElm, oldCh, newCh, insertedVnodeQueue, removeOnly)
updateChildren(dom, old, new, ro) ==
  Bind(updateChildrenLoop(checkDuplicateKeys(
         [oldCh |-> old, newCh |-> new, dom |-> dom,
          nextElm |-> Len(old) + 1, trace |-> <<>>,
          oldStartIdx |-> 1, oldEndIdx |-> Len(old),
          newStartIdx |-> 1, newEndIdx |-> Len(new),
          oldKeyToIdx |-> [key \in Keys |-> 0], keyMapBuilt |-> FALSE,
          canMove |-> ~ro, threw |-> FALSE], 1)),
       LAMBDA p :
         IF p.threw THEN p
         ELSE IF p.oldStartIdx > p.oldEndIdx
         THEN addVnodes(p, IF isUndef(At(p.newCh, p.newEndIdx + 1)) THEN NoElm
                           ELSE p.newCh[p.newEndIdx + 1].elm,
                        p.newStartIdx, p.newEndIdx)
         ELSE IF p.newStartIdx > p.newEndIdx
         THEN removeVnodes(p, p.oldStartIdx, p.oldEndIdx)
         ELSE p)

\* the lists of keys without a repeated key
KeyLists == {ks \in SeqsOf(Keys, 0, MaxCh) :
               \A i \in 1..Len(ks), j \in 1..Len(ks) : ks[i] = ks[j] => i = j}

\* a parent rendered with the children old, about to be patched to the
\* children new; retag is the key the new render gives the tag p, if any
Rendered(old, new, retag, ro) ==
  /\ oldVnodes = [i \in 1..Len(old) |-> VNode(old[i], "li", i)]
  /\ oldCh = oldVnodes
  /\ newCh = [i \in 1..Len(new) |->
                VNode(new[i], IF new[i] = retag THEN "p" ELSE "li", NoElm)]
  /\ removeOnly = ro
  /\ parentElm = [i \in 1..Len(old) |-> i]
  /\ patched = FALSE
  /\ domTrace = <<>>

\* patchVnode of the parent: updateChildren(elm, oldCh, ch, ..., removeOnly)
UpdateChildren ==
  /\ ~patched
  /\ \E p \in {updateChildren(parentElm, oldCh, newCh, removeOnly)} :
         /\ oldCh' = p.oldCh
         /\ newCh' = p.newCh
         /\ parentElm' = p.dom
         /\ domTrace' = p.trace
  /\ patched' = TRUE
  /\ UNCHANGED <<oldVnodes, removeOnly, reactVars, arrVars, nodeVars, objVars>>

InitPatch ==
  /\ InitFrom({<<>>})
  /\ ArrayObserved(<<>>)
  /\ \E old \in KeyLists, new \in KeyLists, ro \in BOOLEAN :
       \E retag \in {""} \cup Range(new) : Rendered(old, new, retag, ro)
  /\ NodeIdle

NextPatch == UpdateChildren

SpecPatch == InitPatch /\ [][NextPatch]_vars

\* one old and one new child, over the fields sameVnode reads
SameNodes(keys) ==
  {v \in [key : keys, tag : {"div", "input"}, elm : {NoElm}, isComment : BOOLEAN,
          data : {"undef", "noattrs", "notype", "text", "password", "checkbox"},
          asyncFactory : {"none", "f", "g"}, isAsyncPlaceholder : BOOLEAN] :
     v.isAsyncPlaceholder => v.asyncFactory # "none"}

InitSame ==
  /\ InitFrom({<<>>})
  /\ ArrayObserved(<<>>)
  /\ \E a \in SameNodes({"a"}), b \in SameNodes({"a", "b"}), ro \in BOOLEAN :
       /\ oldVnodes = <<[a EXCEPT !.elm = 1]>>
       /\ oldCh = oldVnodes
       /\ newCh = <<b>>
       /\ removeOnly = ro
       /\ parentElm = <<1>>
       /\ patched = FALSE
       /\ domTrace = <<>>
  /\ NodeIdle

NextSame == UpdateChildren

SpecSame == InitSame /\ [][NextSame]_vars

\* children in which a key may occur more than once
MaxDup == 3
DupKeys == {"a", "b", "c"}
DupLists == SeqsOf(DupKeys, 0, MaxDup)

InitDup ==
  /\ InitFrom({<<>>})
  /\ ArrayObserved(<<>>)
  /\ \E old \in DupLists, new \in DupLists, ro \in BOOLEAN :
       Rendered(old, new, "", ro)
  /\ NodeIdle

NextDup == UpdateChildren

SpecDup == InitDup /\ [][NextDup]_vars

\* old children long enough to repeat a key between two other keys
MaxOld == 4
MaxNew == 2

InitTie ==
  /\ InitFrom({<<>>})
  /\ ArrayObserved(<<>>)
  /\ \E old \in SeqsOf(DupKeys, 0, MaxOld), new \in SeqsOf(DupKeys, 0, MaxNew) :
       \E ro \in BOOLEAN : Rendered(old, new, "", ro)
  /\ NodeIdle

NextTie == UpdateChildren

SpecTie == InitTie /\ [][NextTie]_vars

\* ============================================================== patchVnode
\* patchVnode (vdom/create-element.ts) on one pair of vnodes.
NodeTexts == {0, 1, 2}

NEv(o) == [o |-> o]
NLog(n, o) == [n EXCEPT !.trace = Append(@, NEv(o))]

\* cloneVNode: a new vnode with the tag, data, children, text, elm, key and
\* isStatic of the vnode, and isCloned set
cloneVNode(v) ==
  [v EXCEPT !.id = v.id + 1, !.isCloned = TRUE, !.isOnce = FALSE,
            !.isAsyncPlaceholder = FALSE, !.ci = 0]

\* isPatchable: a vnode without text is an element, or a component whose
\* root is one
isPatchable(v) == v.text = 0

\* hydrate(oldVnode.elm, vnode, insertedVnodeQueue) for the vnode of a
\* resolved async component: the init hook makes the component instance
hydrate(n) ==
  IF n.vnode.data
  THEN NLog([NLog(NLog(n, "hydrate"), "init") EXCEPT !.vnode.ci = 2],
            "initComponent")
  ELSE IF n.vnode.ch # 0 THEN NLog(NLog(n, "hydrate"), "createChildren")
  ELSE NLog(n, "hydrate")

\* patchVnode after the static-reuse test: hooks, children, text
patchFull(n) ==
  LET v == n.vnode
      old == n.old
      n1 == IF v.data THEN NLog(n, "prepatch") ELSE n
      n2 == IF v.data /\ isPatchable(v) THEN NLog(n1, "update") ELSE n1
      n3 == IF v.text = 0
            THEN (IF old.ch # 0 /\ v.ch # 0
                  THEN (IF old.ch # v.ch THEN NLog(n2, "updateChildren") ELSE n2)
                  ELSE IF v.ch # 0
                  THEN NLog(IF old.text # 0 THEN NLog(n2, "setTextContent") ELSE n2,
                            "addVnodes")
                  ELSE IF old.ch # 0 THEN NLog(n2, "removeVnodes")
                  ELSE IF old.text # 0 THEN NLog(n2, "setTextContent")
                  ELSE n2)
            ELSE IF old.text # v.text THEN NLog(n2, "setTextContent")
            ELSE n2
  IN  IF v.data THEN NLog(n3, "postpatch") ELSE n3

\* a test of the static reuse that never holds
isStaticReuseNever(old, v) == FALSE

\* the test of the static reuse
isStaticReuse(old, v) ==
  v.isStatic /\ old.isStatic /\ v.key = old.key /\ (v.isCloned \/ v.isOnce)

\* patchVnode(oldVnode, vnode, insertedVnodeQueue, ownerArray, index)
patchVnodeOf(old, vnode, owner) ==
  IF old.id = vnode.id
  THEN [old |-> old, vnode |-> vnode, trace |-> <<>>]
  ELSE LET v1 == IF vnode.elm # NoElm /\ owner THEN cloneVNode(vnode) ELSE vnode
           n == [old |-> old, vnode |-> [v1 EXCEPT !.elm = old.elm],
                 trace |-> IF v1.id # vnode.id THEN <<NEv("cloneVNode")>> ELSE <<>>]
       IN  IF old.isAsyncPlaceholder
           THEN (IF n.vnode.resolved THEN hydrate(n)
                 ELSE [n EXCEPT !.vnode.isAsyncPlaceholder = TRUE])
           ELSE IF isStaticReuse(old, n.vnode)
           THEN [n EXCEPT !.vnode.ci = old.ci]
           ELSE patchFull(n)

\* patch or updateChildren calls patchVnode on the pair
PatchVnode ==
  /\ ~pvDone
  /\ \E n \in {patchVnodeOf(pvOld, pvNew, pvOwner)} :
       /\ pvNode' = n.vnode
       /\ pvTrace' = n.trace
  /\ pvDone' = TRUE
  /\ UNCHANGED <<pvOld, pvNew, pvOwner, reactVars, arrVars, patchVars, objVars>>

\* the old vnodes: rendered, so with a real node (1); an async placeholder
\* is a comment without data, children or component instance
OldNodes ==
  {v \in [id : {1}, elm : {1}, key : {"k1"}, isStatic : BOOLEAN,
          isCloned : {FALSE}, isOnce : BOOLEAN, isAsyncPlaceholder : BOOLEAN,
          resolved : {FALSE}, data : BOOLEAN, text : {0, 1}, ch : {0, 1},
          ci : {0, 1}] :
     /\ v.text # 0 => (v.ch = 0 /\ ~v.data /\ v.ci = 0)
     /\ v.ci # 0 => v.data
     /\ v.isAsyncPlaceholder => (~v.data /\ v.ch = 0 /\ v.text = 0)}

\* the vnodes of the new render that sameVnode matches with old: the old
\* vnode itself, or another vnode of the same key; it has a real node (7)
\* when an earlier patch used it already
NewNodes(old) ==
  {old} \cup
  {v \in [id : {3}, elm : {NoElm, 7}, key : {old.key}, isStatic : BOOLEAN,
          isCloned : BOOLEAN, isOnce : BOOLEAN, isAsyncPlaceholder : {FALSE},
          resolved : BOOLEAN, data : BOOLEAN, text : NodeTexts, ch : {0, 1, 2},
          ci : {0}] :
     /\ v.text # 0 => (v.ch = 0 /\ ~v.data)
     /\ v.resolved => (old.isAsyncPlaceholder /\ v.data)
     /\ (old.isAsyncPlaceholder /\ ~v.resolved) => (~v.data /\ v.ch = 0 /\ v.text = 0)
     /\ ~old.isAsyncPlaceholder => (v.data = old.data /\ (v.text = 0) = (old.text = 0))}

InitNode ==
  /\ InitFrom({<<>>})
  /\ ArrayObserved(<<>>)
  /\ PatchIdle
  /\ \E old \in OldNodes : \E new \in NewNodes(old) : \E owner \in BOOLEAN :
       /\ pvOld = old /\ pvNew = new /\ pvOwner = owner
       /\ pvNode = new /\ pvTrace = <<>> /\ pvDone = FALSE

NextNode == PatchVnode

SpecNode == InitNode /\ [][NextNode]_vars

\* ============================================================ set and del
\* key in Object.prototype
inPrototype(key) == key = "toString"
\* hasOwn(target, key)
hasOwn(t, key) == t.keys[key] # "none"

\* ob.dep.notify()
obNotify(s) == notify(s, s.tgt.dep)

\* target[key] = val
assignKey(s, key, v) ==
  Log([s EXCEPT !.tgt.keys[key] = IF @ = "none" THEN "plain" ELSE @,
                !.tgt.vals[key] = v],
      Ev("assignKey", Null, key, v, Undef))

\* a test that lets every target through
isRootOrInstanceNever(t) == FALSE

\* target._isVue || (ob && ob.vmCount)
isRootOrInstance(t) == t.isVue \/ (t.ob /\ t.vmCount > 0)

\* the indices of an array target, as keys
Indices == {"0", "1"}
\* isValidArrayIndex(key), and the index
isValidArrayIndex(key) == key \in Indices
IndexOfKey(key) == IF key = "0" THEN 0 ELSE 1

\* target.length = Math.max(target.length, n): the new slots are empty
padTo(items, n) ==
  IF Len(items) >= n THEN items
  ELSE items \o [i \in 1..(n - Len(items)) |-> Undef]

\* target.splice(i, 1, ...ins) on the target array (a start at or beyond the
\* length removes nothing): the method of an observed array is the mutator of array.ts, which ends with ob.dep.notify()
targetSplice(s, i, ins) ==
  Bind(Log([s EXCEPT !.tgt.items =
                      IF i >= Len(@) THEN @ \o ins
                      ELSE SubSeq(@, 1, i) \o ins \o SubSeq(@, i + 2, Len(@))],
           Ev("splice", Null, "", i, Len(ins))),
       LAMBDA s1 : IF s1.tgt.ob THEN obNotify(s1) ELSE s1)

\* a set that assigns the new key and does no more
setPlain(s, key, v) == [assignKey(s, key, v) EXCEPT !.ret = v]

\* set(target, key, val)
set(s, key, v) ==
  IF s.tgt.readonly THEN Log(s, Ev("warn", Null, key, Undef, Undef))
  ELSE IF s.tgt.isArray /\ isValidArrayIndex(key)
  THEN [targetSplice([s EXCEPT !.tgt.items = padTo(@, IndexOfKey(key))],
                     IndexOfKey(key), <<v>>) EXCEPT !.ret = v]
  ELSE IF (hasOwn(s.tgt, key) \/ inPrototype(key)) /\ ~inPrototype(key)
  THEN [assignKey(s, key, v) EXCEPT !.ret = v]
  ELSE IF isRootOrInstance(s.tgt)
  THEN [Log(s, Ev("warn", Null, key, Undef, Undef)) EXCEPT !.ret = v]
  ELSE IF ~s.tgt.ob
  THEN [assignKey(s, key, v) EXCEPT !.ret = v]
  ELSE [obNotify(Log([s EXCEPT !.tgt.keys[key] = "reactive",
                               !.tgt.vals[key] = v],
                     Ev("defineReactive", Null, key, v, Undef)))
          EXCEPT !.ret = v]

\* del(target, key)
del(s, key) ==
  IF s.tgt.isArray /\ isValidArrayIndex(key)
  THEN targetSplice(s, IndexOfKey(key), <<>>)
  ELSE IF isRootOrInstance(s.tgt)
  THEN Log(s, Ev("warn", Null, key, Undef, Undef))
  ELSE IF s.tgt.readonly THEN Log(s, Ev("warn", Null, key, Undef, Undef))
  ELSE IF ~hasOwn(s.tgt, key) THEN s
  ELSE Bind(Log([s EXCEPT !.tgt.keys[key] = "none", !.tgt.vals[key] = Undef],
                Ev("delete", Null, key, Undef, Undef)),
            LAMBDA s1 : IF ~s1.tgt.ob THEN s1 ELSE obNotify(s1))

\* the null slots of subs are swept at the end of a flush only: reads of the
\* property by the script are followed up to this length of a subs
MaxSubs == 4

\* ------------------------------------------------------------- containers
\* observe(value) for an inserted element: an Observer is made for an object
\* of the heap that has none and is not marked raw, and the Observer of an
\* array observes its items
RECURSIVE observeItems(_, _, _)
observeItems(s, items, i) ==
  IF i > Len(items) THEN s
  ELSE LET e == items[i]
       IN  IF IsObj(s, e) /\ ~Obj(s, e).ob /\ ~Obj(s, e).raw /\ e # s.heap.cur
           THEN observeItems(
                  observeItems([s EXCEPT !.heap.objs[e].ob = TRUE],
                               IF Obj(s, e).isArray THEN Obj(s, e).items ELSE <<>>, 1),
                  items, i + 1)
           ELSE observeItems(s, items, i + 1)

\* the mutator of array.ts on the array held in tgt: the native method,
\* ob.observeArray(inserted), ob.dep.notify()
arrayMethod(s, method, args) ==
  LET s1 == Log([s EXCEPT !.tgt.items = original(@, method, args)],
                Ev("native", Null, method, Undef, Undef))
  IN  obNotify(observeItems(s1, insertedOf(method, args), 1))

\* the state in which the object n of the heap is the one held in tgt
Load(s, n) == [s EXCEPT !.tgt = s.heap.objs[n], !.heap.cur = n]

\* the calls the script makes on the objects of the heap
MaxCalls == 4

\* a call made by the script on the object n of the heap
HeapCall(n, r, name, key, v) ==
  /\ heap.calls < MaxCalls
  /\ Commit([r EXCEPT !.exc = FALSE])
  /\ heap' = [r.heap EXCEPT !.objs[n] = r.tgt, !.cur = heap.root,
                            !.calls = @ + 1]
  /\ tgt' = heap'.objs[heap.root]
  /\ tgtOp' = [name |-> name, key |-> key, val |-> v, before |-> heap.objs[n]]
  /\ op' = Op(name, Null, n, 0)
  /\ atStart' = IF waiting THEN atStart ELSE <<>>
  /\ hit' = IF waiting THEN hit ELSE {}
  /\ UNCHANGED <<copies, pc, arrVars, patchVars, nodeVars>>

\* n[method](...args)
HeapMethod(n, method, args) ==
  /\ pc = "idle"
  /\ heap.objs[n].isArray /\ heap.objs[n].ob
  /\ \E r \in {arrayMethod(Load(Cur, n), method, args)} :
       HeapCall(n, r, "method", method, Undef)

\* Vue.set(n, key, v)
HeapSet(n, key, v) ==
  /\ pc = "idle"
  /\ \E r \in {set(Load(Cur, n), key, v)} : HeapCall(n, r, "setOn", key, v)

\* Vue.delete(n, key)
HeapDel(n, key) ==
  /\ pc = "idle"
  /\ \E r \in {del(Load(Cur, n), key)} : HeapCall(n, r, "delOn", key, Undef)

\* Vue.set(vm.o, key, val) called by the script
SetKey(key, v) ==
  /\ pc = "idle"
  /\ \E r \in {set(Cur, key, v)} :
       /\ Commit([r EXCEPT !.exc = FALSE])
       /\ tgt' = r.tgt
  /\ tgtOp' = [name |-> "set", key |-> key, val |-> v, before |-> tgt]
  /\ op' = Op("setKey", Null, key, v)
  /\ atStart' = IF waiting THEN atStart ELSE <<>>
  /\ hit' = IF waiting THEN hit ELSE {}
  /\ UNCHANGED <<copies, pc, arrVars, patchVars, nodeVars, heap>>

\* Vue.delete(vm.o, key) called by the script
DelKey(key) ==
  /\ pc = "idle"
  /\ \E r \in {del(Cur, key)} :
       /\ Commit([r EXCEPT !.exc = FALSE])
       /\ tgt' = r.tgt
  /\ tgtOp' = [name |-> "del", key |-> key, val |-> Undef, before |-> tgt]
  /\ op' = Op("delKey", Null, key, 0)
  /\ atStart' = IF waiting THEN atStart ELSE <<>>
  /\ hit' = IF waiting THEN hit ELSE {}
  /\ UNCHANGED <<copies, pc, arrVars, patchVars, nodeVars, heap>>

\* the objects set and del are called on: x was defined when the object was
\* observed (or is a data property of an object without Observer), y was
\* added later by an assignment
Targets ==
  { Target([k \in TKeys |-> IF k = "x" THEN kx ELSE IF k = "y" THEN ky ELSE "none"],
           [k \in TKeys |-> IF (k = "x" /\ kx # "none") \/ (k = "y" /\ ky # "none")
                            THEN 0 ELSE Undef],
           ob, vmCount, ro) :
      kx \in {"none", "plain", "reactive"}, ky \in {"none", "plain"},
      ob \in BOOLEAN, vmCount \in {0, 1}, ro \in BOOLEAN }

\* an object with an Observer has its first keys reactive; one without has
\* no reactive key and no vmCount
ObservedTargets ==
  { t \in Targets : /\ t.ob => t.keys["x"] # "plain"
                    /\ ~t.ob => (t.keys["x"] # "reactive" /\ t.vmCount = 0) }

\* watchers of the keys of the target
SetScenarios ==
  { <<UserWatcher(ReadKeys, CbNoop), SyncWatcher(ReadKeys, CbNoop),
      RenderWatcher(ReadKeys)>> }

InitSet ==
  /\ \E t \in ObservedTargets : InitWith(SetScenarios, t)
  /\ ArrayObserved(<<>>) /\ PatchIdle /\ NodeIdle

NextSet ==
  \/ \E key \in TKeys : \E v \in TVals : SetKey(key, v)
  \/ \E key \in TKeys : DelKey(key)
  \/ FlushCallbacks
  \/ FlushBegin
  \/ FlushStep
  \/ FlushFinish

SpecSet == InitSet /\ [][NextSet]_vars

\* arrays set and del are called on, observed or not, readonly or not
MaxItems == 2
ArrayTargets ==
  { [NoTarget EXCEPT !.isArray = TRUE, !.items = q, !.ob = ob, !.readonly = ro] :
      q \in SeqsOf(TVals, 0, MaxItems), ob \in BOOLEAN, ro \in BOOLEAN }

\* component instances: _isVue, no __ob__; x is a property of the instance
VueTargets ==
  { [NoTarget EXCEPT !.isVue = TRUE, !.keys["x"] = kx,
                     !.vals["x"] = IF kx = "none" THEN Undef ELSE 0] :
      kx \in {"none", "plain"} }

\* the keys the script passes for a target
KeysFor(t) == IF t.isArray THEN Indices ELSE TKeys

InitAny ==
  /\ \E t \in ObservedTargets \cup ArrayTargets \cup VueTargets :
       InitWith(SetScenarios, t)
  /\ ArrayObserved(<<>>) /\ PatchIdle /\ NodeIdle

NextAny ==
  \/ \E key \in KeysFor(tgt) : \E v \in TVals : SetKey(key, v)
  \/ \E key \in KeysFor(tgt) : DelKey(key)
  \/ FlushCallbacks
  \/ FlushBegin
  \/ FlushStep
  \/ FlushFinish

SpecAny == InitAny /\ [][NextAny]_vars

\* ================================================= computed properties
\* a computed property a ? b : c, a render function that reads it, and a
\* watcher of b ? c : the computed property
ComputedScenarios ==
  { <<ComputedWatcher(ReadCond("a", "b", "c")),
      RenderWatcher(ReadComputedProp(1)),
      UserWatcher(ReadCondComputed("b", "c", 1), CbNoop)>> }

InitComputed ==
  /\ InitFrom(ComputedScenarios) /\ ArrayObserved(<<>>) /\ PatchIdle /\ NodeIdle

NextComputed ==
  \/ \E f \in Fields : \E v \in FieldVals(f) : SetField(f, v)
  \/ \E k \in WIds : (\A d \in Deps : Len(subs[d]) < MaxSubs) /\ ReadComputed(k)
  \/ FlushCallbacks
  \/ FlushBegin
  \/ FlushStep
  \/ FlushFinish

SpecComputed == InitComputed /\ [][NextComputed]_vars

\* ============================================== queueing during the flush
\* a watcher whose callback writes a field that watchers created before and
\* after it read; and a post watcher queued with a watcher whose callback
\* writes the field of a render watcher
OrderScenarios ==
  { <<UserWatcher(ReadField("b"), CbNoop),
      UserWatcher(ReadField("b"), CbNoop),
      UserWatcher(ReadField("a"), CbSet("b", 1)),
      UserWatcher(ReadCond("c", "b", "a"), CbNoop)>>,
    <<PostWatcher(ReadField("a"), CbNoop),
      UserWatcher(ReadField("a"), CbSet("b", 1)),
      RenderWatcher(ReadField("b")),
      PostWatcher(ReadField("c"), CbNoop)>> }

InitOrder ==
  /\ InitFrom(OrderScenarios) /\ ArrayObserved(<<>>) /\ PatchIdle /\ NodeIdle

NextOrder ==
  \/ \E f \in Fields : \E v \in FieldVals(f) : SetField(f, v)
  \/ FlushCallbacks
  \/ FlushBegin
  \/ FlushStep
  \/ FlushFinish

SpecOrder == InitOrder /\ [][NextOrder]_vars

\* ========================================================= the lifecycle hooks
\* the render watcher of a mounted component whose updated hook is h
HookedComponent(f, h, keptAlive) ==
  [ComponentWatcher(f, Undef, "none", FALSE)
     EXCEPT !.vm.updated = h, !.vm.keptAlive = keptAlive]

\* a component whose updated hook writes the field a watcher and a second
\* component read, with a kept-alive child; and one that is not mounted yet
HookScenarios ==
  { <<UserWatcher(ReadField("b"), CbNoop),
      HookedComponent("a", CbSet("b", 1), TRUE),
      HookedComponent("b", CbNoop, FALSE)>>,
    <<HookedComponent("a", CbSet("c", 1), FALSE),
      [HookedComponent("a", CbNoop, TRUE) EXCEPT !.vm.isMounted = FALSE],
      HookedComponent("c", CbNoop, TRUE)>> }

InitHooks ==
  /\ InitFrom(HookScenarios) /\ ArrayObserved(<<>>) /\ PatchIdle /\ NodeIdle

NextHooks ==
  \/ \E f \in Fields : \E v \in {0, 1} : SetField(f, v)
  \/ FlushCallbacks
  \/ FlushBegin
  \/ FlushStep
  \/ FlushFinish

SpecHooks == InitHooks /\ [][NextHooks]_vars

\* ========================================================== subscriptions
\* a watcher that reads a twice or a and b, a computed property a ? b : c
\* read by a render function, and a watcher of b ? c : a whose callback
\* stops the first one
SubScenarios ==
  { <<UserWatcher(ReadCond("a", "a", "b"), CbNoop),
      ComputedWatcher(ReadCond("a", "b", "c")),
      RenderWatcher(ReadComputedProp(2)),
      UserWatcher(ReadCond("b", "c", "a"), CbTeardown(1))>>,
    <<UserWatcher(ReadStopIf("a", "b"), CbNoop),
      UserWatcher(ReadCond("b", "b", "a"), CbSet("c", 1)),
      UserWatcher(ReadCond("c", "a", "b"), CbNoop)>> }

InitSubs ==
  /\ InitFrom(SubScenarios) /\ ArrayObserved(<<>>) /\ PatchIdle /\ NodeIdle

NextSubs ==
  \/ \E f \in Fields : \E v \in {0, 1} : SetField(f, v)
  \/ \E w \in WIds : Teardown(w)
  \/ FlushCallbacks
  \/ FlushBegin
  \/ FlushStep
  \/ FlushFinish

SpecSubs == InitSubs /\ [][NextSubs]_vars

\* ====================================================== subscription graph
\* a computed property a ? b : c read by a render function and a watcher
\* whose getter throws when b is set and whose callback stops the render
\* watcher; a getter that stops its own watcher beside a sync watcher; and
\* a sync watcher whose getter sets a when it is not set and returns b
GraphScenarios ==
  { <<ComputedWatcher(ReadCond("a", "b", "c")),
      RenderWatcher(ReadComputedProp(1)),
      UserWatcher(ReadThrowIf("b"), CbTeardown(2))>>,
    <<UserWatcher(ReadStopIf("a", "b"), CbNoop),
      SyncWatcher(ReadCond("b", "c", "a"), CbNoop)>>,
    <<SyncWatcher(ReadSetIf("a", "b"), CbNoop),
      UserWatcher(ReadField("a"), CbNoop)>> }

InitGraph ==
  /\ InitFrom(GraphScenarios) /\ ArrayObserved(<<>>) /\ PatchIdle /\ NodeIdle

\* the null slots of a subscriber list stay until a flush ends: the script
\* stops writing and reading when a list has MaxSubs slots
NextGraph ==
  \/ \E f \in Fields : \E v \in {0, 1} :
       (\A d \in Deps : Len(subs[d]) < MaxSubs) /\ SetField(f, v)
  \/ \E k \in WIds : (\A d \in Deps : Len(subs[d]) < MaxSubs) /\ ReadComputed(k)
  \/ \E w \in WIds : Teardown(w)
  \/ FlushCallbacks
  \/ FlushBegin
  \/ FlushStep
  \/ FlushFinish

SpecGraph == InitGraph /\ [][NextGraph]_vars

\* ================================================= derived-value freshness
\* a computed property a read by a sync watcher and a render function
\* that read a themselves first; and a computed property
\* a ? b : c read by a render function and a sync watcher
FreshScenarios ==
  { <<ComputedWatcher(ReadField("a")),
      SyncWatcher(ReadThen("a", 1), CbNoop),
      RenderWatcher(ReadThen("a", 1))>>,
    <<ComputedWatcher(ReadCond("a", "b", "c")),
      RenderWatcher(ReadComputedProp(1)),
      SyncWatcher(ReadComputedProp(1), CbNoop)>> }

InitFresh ==
  /\ InitFrom(FreshScenarios) /\ ArrayObserved(<<>>) /\ PatchIdle /\ NodeIdle

NextFresh ==
  \/ \E f \in Fields : \E v \in {0, 1} :
       (\A d \in Deps : Len(subs[d]) < MaxSubs) /\ SetField(f, v)
  \/ FlushCallbacks
  \/ FlushBegin
  \/ FlushStep
  \/ FlushFinish

SpecFresh == InitFresh /\ [][NextFresh]_vars

\* ====================================================== scheduler recovery
\* a render watcher whose updateComponent throws when a is set (the patch
\* throws) beside two user watchers; and an internal watcher whose callback
\* throws beside a user watcher
RecoverScenarios ==
  { <<RenderWatcher(ReadThrowIf("a")),
      UserWatcher(ReadField("b"), CbNoop),
      UserWatcher(ReadField("a"), CbNoop)>>,
    <<InternalWatcher(ReadField("a"), CbThrow),
      UserWatcher(ReadField("b"), CbNoop)>> }

InitRecover ==
  /\ InitFrom(RecoverScenarios) /\ ArrayObserved(<<>>) /\ PatchIdle /\ NodeIdle

NextRecover ==
  \/ \E f \in Fields : \E v \in {0, 1} : SetField(f, v)
  \/ FlushCallbacks
  \/ FlushBegin
  \/ FlushStep
  \/ FlushFinish

SpecRecover == InitRecover /\ [][NextRecover]_vars

\* ================================================================ $destroy
\* the root data of an instance: observed, and counted by initData
RootData == [NoTarget EXCEPT !.ob = TRUE, !.vmCount = 1]

\* the render watcher of a component with the hooks beforeDestroy and
\* destroyed
Destroyable(f, beforeDestroy, destroyed) ==
  [ComponentWatcher(f, Undef, "none", FALSE)
     EXCEPT !.vm.beforeDestroy = beforeDestroy, !.vm.destroyed = destroyed]

\* a component with a computed property a ? b : c its render function does
\* not read; its hooks do nothing, or one of them calls $destroy
DestroyScenarios ==
  { <<ComputedWatcher(ReadCond("a", "b", "c")),
      Destroyable("a", h[1], h[2])>> :
      h \in {<<CbNoop, CbNoop>>, <<CbDestroyOnce, CbNoop>>,
              <<CbNoop, CbDestroyOnce>>} }

InitDestroy ==
  /\ InitWith(DestroyScenarios, RootData)
  /\ ArrayObserved(<<>>) /\ PatchIdle /\ NodeIdle

NextDestroy ==
  \/ \E f \in Fields : \E v \in {0, 1} : SetField(f, v)
  \/ \E k \in WIds : (\A d \in Deps : Len(subs[d]) < MaxSubs) /\ ReadComputed(k)
  \/ \E w \in WIds : Destroy(w)
  \/ FlushCallbacks
  \/ FlushBegin
  \/ FlushStep
  \/ FlushFinish

SpecDestroy == InitDestroy /\ [][NextDestroy]_vars

\* ============================================================== containers
\* an observed object, an observed array, an object marked raw
HObject(n, ob) == [NoTarget EXCEPT !.ob = ob, !.dep = n]
HArray(n, items) == [NoTarget EXCEPT !.ob = TRUE, !.dep = n, !.isArray = TRUE,
                                     !.items = items]
HRaw(n) == [NoTarget EXCEPT !.dep = n, !.raw = TRUE]

\* the heap: vm.o is the array A = [e1, N] with N = [], or the object O
\* with the property x; e2 is an object that has not been observed yet
Heaps ==
  { [cur |-> root, root |-> root, calls |-> 0,
     objs |-> [n \in Names |->
                 CASE n = "A" -> HArray("A", <<"e1", "N">>)
                   [] n = "N" -> HArray("N", <<>>)
                   [] n = "O" -> [HObject("O", TRUE) EXCEPT !.keys["x"] = "reactive",
                                                           !.vals["x"] = 0]
                   [] n = "e1" -> HObject("e1", TRUE)
                   [] n = "e2" -> HObject("e2", FALSE)
                   [] n = "raw" -> HRaw("raw")]] : root \in {"A", "O"} }

\* the elements the script puts into an array: objects and the nested array
\* that are not in it
Pool(n) == (IF n = "A" THEN {"e1", "N", "raw"} ELSE {"e2"}) \ Range(heap.objs[n].items)
\* the arrays and the objects the script works on
Arrays == IF heap.root = "A" THEN {"A", "N"} ELSE {}
Objects == IF heap.root = "A" THEN {"e1", "e2", "raw"} ELSE {"O"}

ContainerScenarios ==
  { <<UserWatcher(ReadContainer, CbNoop)>>, <<SyncWatcher(ReadContainer, CbNoop)>> }

InitHeap ==
  /\ \E h \in Heaps : \E sc \in ContainerScenarios :
       /\ Starts(construct([Empty([f \in Fields |-> 0])
                              EXCEPT !.tgt = h.objs[h.root], !.heap = h], sc, 1))
       /\ tgt = h.objs[h.root] /\ heap = h
       /\ tgtOp = [name |-> "", key |-> "", val |-> Undef, before |-> tgt]
  /\ copies = <<>> /\ pc = "idle" /\ atStart = <<>> /\ hit = {}
  /\ op = Op("init", Null, "", 0)
  /\ ArrayObserved(<<>>) /\ PatchIdle /\ NodeIdle

NextHeap ==
  \/ \E n \in Arrays : \E e \in Pool(n) :
       \E m \in {"push", "unshift"} : HeapMethod(n, m, <<e>>)
  \/ \E n \in Arrays : \E m \in {"pop", "shift", "sort", "reverse"} :
       HeapMethod(n, m, <<>>)
  \/ \E n \in Arrays : \E e \in Pool(n) :
       \E args \in {<<0, 1>>, <<1, 0, e>>} : HeapMethod(n, "splice", args)
  \/ \E n \in Objects : HeapSet(n, "x", 0)
  \/ \E n \in Objects : HeapDel(n, "x")
  \/ FlushCallbacks
  \/ FlushBegin
  \/ FlushStep
  \/ FlushFinish

SpecHeap == InitHeap /\ [][NextHeap]_vars

\* ====================================================== nested evaluations
\* a computed property whose getter throws when a is set, read by a user
\* watcher and by a render function; and a sync watcher whose callback
\* writes the field of a sync watcher whose getter throws
StackScenarios ==
  { <<ComputedWatcher(ReadThrowIf("a")),
      UserWatcher(ReadComputedProp(1), CbNoop),
      RenderWatcher(ReadCondComputed("b", "c", 1))>>,
    <<SyncWatcher(ReadField("a"), CbSet("b", 1)),
      SyncWatcher(ReadThrowIf("b"), CbNoop),
      RenderWatcher(ReadThrowIf("c"))>> }

InitStack ==
  /\ InitFrom(StackScenarios) /\ ArrayObserved(<<>>) /\ PatchIdle /\ NodeIdle

NextStack ==
  \/ \E f \in Fields : \E v \in FieldVals(f) : SetField(f, v)
  \/ \E k \in WIds : ReadComputed(k)
  \/ FlushCallbacks
  \/ FlushBegin
  \/ FlushStep
  \/ FlushFinish

SpecStack == InitStack /\ [][NextStack]_vars

\* ================================================================= _render
\* a watcher of a field, the render watcher of a component, and a watcher
\* created after it
RenderScenarios ==
  { <<UserWatcher(ReadField("a"), CbNoop),
      ComponentWatcher("a", tw, re, dev),
      UserWatcher(ReadCond("a", "b", "c"), CbNoop)>> :
      tw \in {0, 1}, re \in {"none", "ok", "throws"}, dev \in BOOLEAN }

InitRender ==
  /\ InitFrom(RenderScenarios) /\ ArrayObserved(<<>>) /\ PatchIdle /\ NodeIdle

NextRender ==
  \/ \E f \in Fields : \E v \in FieldVals(f) : SetField(f, v)
  \/ FlushCallbacks
  \/ FlushBegin
  \/ FlushStep
  \/ FlushFinish

SpecRender == InitRender /\ [][NextRender]_vars

\* ================================================================ nextTick
\* vm.$nextTick(cb) called by the script
NextTickUser ==
  /\ pc = "idle"
  /\ Count(callbacks, "user") < MaxTicks
  /\ Commit(nextTick(Cur, "user"))
  /\ op' = Op("nextTick", Null, "", 0)
  /\ atStart' = IF waiting THEN atStart ELSE <<>>
  /\ hit' = IF waiting THEN hit ELSE {}
  /\ UNCHANGED <<copies, pc, auxVars>>

\* copies[i]() for a callback of the script, which is () => { vm.f = v }
CallUser(f, v) ==
  /\ pc = "copies"
  /\ Head(copies) = "user"
  /\ \E r \in {reactiveSetter(Cur, f, v)} :
       Commit(IF r.exc THEN handleError(r, Null, "nextTick") ELSE r)
  /\ copies' = Tail(copies)
  /\ pc' = AfterCopy(Tail(copies))
  /\ op' = Op("callUser", Null, f, 0)
  /\ atStart' = IF waiting THEN atStart ELSE <<>>
  /\ hit' = IF waiting THEN hit ELSE {}
  /\ UNCHANGED auxVars

\* a component with a watcher whose callback writes a field
TickScenarios ==
  { <<UserWatcher(ReadField("a"), CbSet("b", 1)),
      UserWatcher(ReadField("b"), CbNoop),
      RenderWatcher(ReadCond("c", "a", "b"))>> }

InitTick ==
  /\ InitFrom(TickScenarios) /\ ArrayObserved(<<>>) /\ PatchIdle /\ NodeIdle

NextTick ==
  \/ \E f \in Fields : \E v \in FieldVals(f) : SetField(f, v)
  \/ NextTickUser
  \/ FlushCallbacks
  \/ \E v \in FieldVals("a") : CallUser("a", v)
  \/ FlushBegin
  \/ FlushStep
  \/ FlushFinish

SpecTick == InitTick /\ [][NextTick]_vars

\* ========================================================= nextTick batches
\* the callbacks of the script: () => { vm.a = 1 }, () => { throw ... },
\* () => { vm.$nextTick(cbLate) } and cbLate, which does nothing
TickCbs == {"cbSet", "cbThrow", "cbNext", "cbLate"}

\* nextTick(cb) for a callback of the script
registerTick(s, c) == [nextTick(s, c) EXCEPT !.tickLog.reg = Append(@, c)]

\* cb.call(ctx)
tickBody(s, c) ==
  CASE c = "cbSet" -> reactiveSetter(s, "a", 1)
    [] c = "cbThrow" -> [s EXCEPT !.exc = TRUE]
    [] c = "cbNext" -> registerTick(s, "cbLate")
    [] OTHER -> s

\* an entry of callbacks that lets the exception of cb leave it
tickEntryNoCatch(s, c) == tickBody([s EXCEPT !.tickLog.ran = Append(@, c)], c)

\* the entry nextTick pushes on callbacks:
\* () => { try { cb.call(ctx) } catch (e) { handleError(e, ctx, 'nextTick') } }
tickEntry(s, c) ==
  LET s1 == tickBody([s EXCEPT !.tickLog.ran = Append(@, c)], c)
  IN  IF s1.exc THEN handleError(s1, Null, "nextTick") ELSE s1

\* vm.$nextTick(c) called by the script, once for a callback
RegisterTick(c) ==
  /\ pc = "idle"
  /\ c \notin Range(tickLog.reg)
  /\ Commit(registerTick(Cur, c))
  /\ op' = Op("nextTick", Null, c, 0)
  /\ atStart' = IF waiting THEN atStart ELSE <<>>
  /\ hit' = IF waiting THEN hit ELSE {}
  /\ UNCHANGED <<copies, pc, auxVars>>

\* copies[i]() for a callback of the script; an exception that leaves the
\* entry leaves the loop of flushCallbacks
CallTick ==
  /\ pc = "copies"
  /\ Head(copies) \in TickCbs
  /\ \E r \in {tickEntry(Cur, Head(copies))} :
       /\ Commit([r EXCEPT !.exc = FALSE])
       /\ copies' = IF r.exc THEN <<>> ELSE Tail(copies)
  /\ pc' = AfterCopy(copies')
  /\ op' = Op("callTick", Null, Head(copies), 0)
  /\ atStart' = IF waiting THEN atStart ELSE <<>>
  /\ hit' = IF waiting THEN hit ELSE {}
  /\ UNCHANGED auxVars

\* no watcher is queued while the callbacks of the script are run
BatchScenarios == { <<>> }

InitBatch ==
  /\ InitFrom(BatchScenarios) /\ ArrayObserved(<<>>) /\ PatchIdle /\ NodeIdle

NextBatch ==
  \/ \E c \in TickCbs \ {"cbLate"} : RegisterTick(c)
  \/ FlushCallbacks
  \/ CallTick

\* the timer fires, and the loop of flushCallbacks goes on to its end
SpecBatch ==
  /\ InitBatch /\ [][NextBatch]_vars
  /\ WF_vars(FlushCallbacks) /\ WF_vars(CallTick)

\* ================================================ teardown, errors, loops
\* components whose watchers are torn down while they are queued, notified
\* or evaluated, throw, or trigger themselves or each other
SchedScenarios ==
  { <<SyncWatcher(ReadField("a"), CbTeardown(2)),
      SyncWatcher(ReadField("a"), CbNoop),
      UserWatcher(ReadStopIf("b", "c"), CbNoop),
      ComputedWatcher(ReadField("c"))>>,
    <<UserWatcher(ReadThrowIf("a"), CbNoop),
      UserWatcher(ReadField("a"), CbThrow),
      RenderWatcher(ReadCond("a", "b", "c"))>>,
    <<UserWatcher(ReadField("a"), CbToggle("a")),
      RenderWatcher(ReadField("a"))>>,
    <<UserWatcher(ReadField("a"), CbToggle("b")),
      UserWatcher(ReadField("b"), CbToggle("a"))>> }

\* ============================================== the reactive specification
Init == InitFrom(Scenarios) /\ ArrayObserved(<<>>) /\ PatchIdle /\ NodeIdle

Next ==
  \/ \E f \in Fields : \E v \in FieldVals(f) : SetField(f, v)
  \/ \E k \in WIds : ReadComputed(k)
  \/ \E w \in WIds : Teardown(w)
  \/ FlushCallbacks
  \/ FlushBegin
  \/ FlushStep
  \/ FlushFinish

Spec == Init /\ [][Next]_vars

InitSched ==
  /\ InitFrom(SchedScenarios) /\ ArrayObserved(<<>>) /\ PatchIdle /\ NodeIdle

NextSched == Next

SpecSched == InitSched /\ [][NextSched]_vars

\* ================================================================== claims
TraceIdx == 1..Len(trace)
IsEv(i, e, w) == trace[i].e = e /\ trace[i].w = w
EvCount(e, w) == Cardinality({i \in TraceIdx : IsEv(i, e, w)})

\* C1 (batching): a watcher that is active, not lazy and not sync, and whose
\* latest evaluation read a field, is in the queue exactly once however many
\* value-changing writes to the fields it read are made before the flush
\* starts, and has been pushed exactly once; when the flush has finished the
\* watcher has been run exactly once unless it was queued again meanwhile.
C1_Batching ==
  /\ (pc = "idle" /\ waiting) =>
        \A w \in hit : Count(queue, w) = 1 /\ Count(queuedLog, w) = 1
  /\ op.name = "flushFinish" =>
        \A w \in hit : Count(queuedLog, w) = 1 => Count(ranLog, w) = 1

\* a value-changing write has called update() on a watcher that an earlier
\* write of the batch had queued already
C1_Witness ==
  /\ op.name = "set" /\ op.x = 1 /\ pc = "idle" /\ waiting
  /\ \E w \in hit : /\ EvCount("update", w) = 1 /\ EvCount("queue", w) = 0
                    /\ Count(queue, w) = 1 /\ Len(queue) > 1

\* C2 (dependency pruning): Dep.notify of a field calls update() only on
\* watchers whose latest completed evaluation read that field (itself, or
\* through a computed property it read); in a script write a watcher is
\* queued, run or called back only after such an update().  A watcher that
\* read the field earlier and no longer reads it is therefore left alone.
C2_Pruning ==
  /\ \A i \in TraceIdx : trace[i].e = "update" => trace[i].y = 1
  /\ op.name = "set" =>
       \A i \in TraceIdx :
         trace[i].e \in {"queue", "run", "cb"} =>
           \E j \in 1..(i - 1) : IsEv(j, "update", trace[i].w)

\* watcher 2 evaluates a ? b : c and read c when it was constructed (a = 0);
\* its latest evaluation read b instead, and now c has been written
C2_Witness ==
  /\ op.name = "set" /\ op.f = "c" /\ op.x = 1
  /\ ws[2].getter.k = "cond" /\ ws[2].getter.h = "c" /\ ws[2].active
  /\ reads[2] = {"a", "b"}
  /\ EvCount("update", 2) = 0 /\ EvCount("notify", Null) = 1
  /\ 2 \notin Range(queue)

\* C3 (flush ordering): of two watchers that are not post and are both in
\* the queue when the flush starts, the one with the smaller id has its
\* run() called first; when the flush has finished both have been run.
C3_FlushOrder ==
  /\ \A p \in Range(atStart), c \in Range(atStart) :
       (p < c /\ ~ws[p].post /\ ~ws[c].post /\ c \in Range(ranLog)) =>
         /\ p \in Range(ranLog)
         /\ IndexOf(ranLog, p) < IndexOf(ranLog, c)
  /\ op.name = "flushFinish" => Range(atStart) \subseteq Range(ranLog)

\* a flush has finished in which a watcher ran before one queued before it
C3_Witness ==
  /\ op.name = "flushFinish"
  /\ \E p \in Range(atStart), c \in Range(atStart) :
       /\ p < c
       /\ IndexOf(queuedLog, c) < IndexOf(queuedLog, p)
       /\ IndexOf(ranLog, p) < IndexOf(ranLog, c)

\* C4 (no-op write): a script assignment of a value that hasChanged finds
\* equal to the current one (the same value, or NaN over NaN) assigns
\* nothing and calls nothing: no notify, no update(), no queueWatcher.
C4_NoOpWrite ==
  (op.name = "set" /\ op.x = 0) => trace = <<>>

\* NaN has been assigned over NaN to a field that has a subscriber
C4_Witness ==
  /\ op.name = "set" /\ op.x = 0 /\ op.f = "a" /\ val["a"] = NaN
  /\ \E i \in 1..Len(subs["a"]) : subs["a"][i] # Null

C7_Lazy ==
  /\ [](/\ \A i \in TraceIdx :
             LET ev == trace[i] IN
             /\ (ev.e = "eval" /\ ws[ev.w].lazy) =>
                  /\ ev.d = "evaluate"
                  /\ i > 1
                  /\ IsEv(i - 1, "computedGetter", ev.w)
                  /\ trace[i - 1].x = 1
             /\ (ev.e = "update" /\ ws[ev.w].lazy) =>
                  /\ ev.x = 0
                  /\ (\A j \in (i + 1)..Len(trace) : ~IsEv(j, "eval", ev.w)) =>
                       ws[ev.w].dirty
             /\ ev.e = "computedGetter" =>
                  /\ ev.x = 1 => (i < Len(trace) /\ IsEv(i + 1, "eval", ev.w))
                  /\ ev.x = 0 => (i = Len(trace) \/ ~IsEv(i + 1, "eval", ev.w))
             /\ (ev.e = "new" /\ ws[ev.w].lazy) =>
                  (i = Len(trace) \/ ~IsEv(i + 1, "eval", ev.w))
        /\ op.name = "read" =>
             /\ ~ws[op.w].dirty
             /\ result = ws[op.w].value
             /\ EvCount("eval", op.w) = op.x
             /\ op.x = 0 => result = trace[1].y)
  /\ [][\A k \in WIds :
          (ws[k].lazy /\ ~ws[k].dirty /\ ws'[k].dirty) =>
            \E i \in DOMAIN trace' :
              trace'[i].e = "update" /\ trace'[i].w = k]_vars

\* the script reads a computed property that a write had made dirty: the
\* getter runs once and returns the value of the field as it is now
C7_Witness ==
  /\ op.name = "read" /\ op.x = 1
  /\ EvCount("eval", op.w) = 1
  /\ val["a"] = 1 /\ result = 1

DomCount(o) == Cardinality({i \in 1..Len(domTrace) : domTrace[i].o = o})
DomDid(o, elm) == \E i \in 1..Len(domTrace) : domTrace[i].o = o /\ domTrace[i].elm = elm
KeysOf(ch) == {ch[i].key : i \in 1..Len(ch)}
AllLi(ch) == \A i \in 1..Len(ch) : ch[i].tag = "li"
KeysIn(ch) == [i \in 1..Len(ch) |-> ch[i].key]

\* C8 (reconciliation result): old and new children keyed, no key repeated in
\* a list, moves allowed (removeOnly false): when updateChildren has returned
\* the parent's child nodes are the nodes of the new children, in their order
\* and each once; the node of every key only the old list has was removed and
\* every key only the new list has got a node created by this call.
C8_Result ==
  (patched /\ ~removeOnly) =>
    /\ parentElm = [i \in 1..Len(newCh) |-> newCh[i].elm]
    /\ \A i \in 1..Len(newCh) :
         /\ newCh[i].elm # NoElm
         /\ \A j \in 1..Len(newCh) : newCh[i].elm = newCh[j].elm => i = j
         /\ newCh[i].key \notin KeysOf(oldVnodes) =>
              /\ newCh[i].elm > Len(oldVnodes)
              /\ DomDid("createElement", newCh[i].elm)
    /\ \A i \in 1..Len(oldVnodes) :
         oldVnodes[i].key \notin KeysOf(newCh) =>
           /\ oldVnodes[i].elm \notin Range(parentElm)
           /\ DomDid("removeChild", oldVnodes[i].elm)

\* [a,b,c] patched to [c,d,a]: c and a moved, b removed, d created
C8_Witness ==
  /\ patched /\ ~removeOnly
  /\ KeysIn(oldVnodes) = <<"a", "b", "c">>
  /\ KeysIn(newCh) = <<"c", "d", "a">> /\ AllLi(newCh)
  /\ parentElm = <<3, 4, 1>>
  /\ DomDid("removeChild", 2)

\* C9 (diff stability): keys unique in each list: every old child with a new
\* child of the same key and tag keeps its real node: the new vnode gets
\* that node, which stays under the parent, is never removed and is not
\* created anew; createElement is called only for the new children without
\* such an old child and removeChild only for the old children without such
\* a new child, so [a,b,c] -> [c,a,b] creates and removes nothing.
C9_Stability ==
  patched =>
    /\ \A i \in 1..Len(oldVnodes), j \in 1..Len(newCh) :
         sameVnode(oldVnodes[i], newCh[j]) =>
           /\ newCh[j].elm = oldVnodes[i].elm
           /\ oldVnodes[i].elm \in Range(parentElm)
           /\ ~DomDid("removeChild", oldVnodes[i].elm)
           /\ ~DomDid("createElement", oldVnodes[i].elm)
    /\ DomCount("createElement") =
         Cardinality({j \in 1..Len(newCh) :
                        \A i \in 1..Len(oldVnodes) : ~sameVnode(oldVnodes[i], newCh[j])})
    /\ DomCount("removeChild") =
         Cardinality({i \in 1..Len(oldVnodes) :
                        \A j \in 1..Len(newCh) : ~sameVnode(oldVnodes[i], newCh[j])})
    /\ \A i \in 1..Len(domTrace) :
         domTrace[i].o \in {"patchVnode", "insertBefore", "appendChild",
                            "createElement", "removeChild", "createKeyToOldIdx"}

\* [a,b,c] patched to [c,a,b]: the node of c moved to the front, nothing
\* created, nothing removed
C9_Witness ==
  /\ patched /\ ~removeOnly
  /\ KeysIn(oldVnodes) = <<"a", "b", "c">>
  /\ KeysIn(newCh) = <<"c", "a", "b">> /\ AllLi(newCh)
  /\ parentElm = <<3, 1, 2>>
  /\ DomCount("insertBefore") = 1
  /\ DomCount("createElement") = 0 /\ DomCount("removeChild") = 0

\* the patch of [a,b,c,d] to [d,c,b,a], all nodes unchanged, has returned
Reversed ==
  /\ patched /\ ~removeOnly
  /\ KeysIn(oldVnodes) = <<"a", "b", "c", "d">>
  /\ KeysIn(newCh) = <<"d", "c", "b", "a">> /\ AllLi(newCh)

\* C10 (reversal fast path): [a,b,c,d] patched to [d,c,b,a] never builds the
\* key map, creates and removes nothing, and calls insertBefore exactly 3
\* times (a, b and c are moved behind d; d is then matched in place).
C10_Reversal ==
  Reversed =>
    /\ DomCount("createKeyToOldIdx") = 0
    /\ DomCount("insertBefore") = 3
    /\ DomCount("patchVnode") = 4
    /\ DomCount("createElement") = 0
    /\ DomCount("removeChild") = 0

\* the reversal has been patched: the nodes are in the order d, c, b, a
C10_Witness ==
  /\ Reversed
  /\ parentElm = <<4, 3, 2, 1>>
  /\ [i \in 1..3 |-> domTrace[2 * i].elm] = <<1, 2, 3>>

\* C10 as the specification states it: exactly 4 moves.
C10_AsStated ==
  Reversed =>
    /\ DomCount("createKeyToOldIdx") = 0
    /\ DomCount("insertBefore") = 4
    /\ DomCount("createElement") = 0
    /\ DomCount("removeChild") = 0

\* the patch of [a,b,c] to [c,a,b], all nodes unchanged, has returned
Rotated ==
  /\ patched /\ ~removeOnly
  /\ KeysIn(oldVnodes) = <<"a", "b", "c">>
  /\ KeysIn(newCh) = <<"c", "a", "b">> /\ AllLi(newCh)

\* C11 (rotation): [a,b,c] patched to [c,a,b] makes exactly one move of a real
\* node (one insertBefore, no appendChild), creates no node and removes none,
\* and leaves the parent's child nodes in the order of c, a, b.
C11_Rotation ==
  Rotated =>
    /\ DomCount("insertBefore") = 1
    /\ DomCount("appendChild") = 0
    /\ DomCount("createElement") = 0
    /\ DomCount("removeChild") = 0
    /\ parentElm = <<3, 1, 2>>

\* the rotation has been patched: the one move put the node of c before the
\* node of a, in the branch sameVnode(oldEndVnode, newStartVnode)
C11_Witness ==
  /\ Rotated
  /\ domTrace = <<DEv("patchVnode", 3, NoElm), DEv("insertBefore", 3, 1),
                  DEv("patchVnode", 1, NoElm), DEv("patchVnode", 2, NoElm)>>

\* patchVnode has returned from a call with two static vnodes of equal keys,
\* the new one a clone or a render-once node
StaticPair ==
  /\ pvDone /\ pvOld.id # 0
  /\ pvOld.isStatic /\ pvNew.isStatic /\ pvOld.key = pvNew.key
  /\ (pvNew.isCloned \/ pvNew.isOnce)

\* the new vnode has the real node and the component instance of the old
\* one, and patchVnode called no hook, set no text and created, removed or
\* reconciled no child
StaticReused ==
  /\ pvNode.elm = pvOld.elm
  /\ pvNode.ci = pvOld.ci
  /\ \A i \in 1..Len(pvTrace) : pvTrace[i].o = "cloneVNode"

\* C12 (static reuse): patchVnode on an old and a new vnode that are both
\* static with equal keys, the new one a clone or a render-once node, and
\* the old one not an async placeholder, gives the new vnode the real node
\* and the component instance of the old one and returns without calling a
\* prepatch, update or postpatch hook, without setting text content and
\* without creating, removing or reconciling a child.
C12_StaticReuse ==
  (StaticPair /\ ~pvOld.isAsyncPlaceholder) => StaticReused

\* a cloned static component vnode with other children than the old one has
\* been patched: it got the node and the instance, and nothing was called
C12_Witness ==
  /\ StaticPair /\ ~pvOld.isAsyncPlaceholder
  /\ pvNew.id # pvOld.id /\ pvNew.isCloned /\ pvNew.data
  /\ pvOld.ch = 1 /\ pvNew.ch = 2 /\ pvOld.ci = 1
  /\ pvNode.elm = 1 /\ pvNode.ci = 1 /\ pvTrace = <<>>

\* C12 as the specification states it: for every such pair of vnodes,
\* whether or not the old one is an async placeholder.
C12_AsStated ==
  StaticPair => StaticReused

\* the live subscribers of a Dep: its non null slots
Live(d) == {subs[d][i] : i \in 1..Len(subs[d])} \ {Null}

\* C13 (teardown): a watcher that has been torn down is a live subscriber of
\* no Dep; a torn down watcher stays so; teardown() of a watcher that is
\* not active changes no Dep and calls nothing; the stop hook is called only
\* by teardown() of an active watcher, so once per watcher.
C13_AsStated ==
  /\ [](\A w \in WIds : ~ws[w].active => \A d \in Deps : w \notin Live(d))
  /\ [][\A w \in WIds :
          /\ ~ws[w].active => ~ws'[w].active
          /\ Cardinality({i \in DOMAIN trace' :
                            trace'[i].e = "stop" /\ trace'[i].w = w}) <=
                IF ws[w].active THEN 1 ELSE 0
          /\ (op' = Op("teardown", w, "", 0) /\ ~ws[w].active) =>
                /\ subs' = subs /\ depPending' = depPending
                /\ pendingCleanupDeps' = pendingCleanupDeps
                /\ trace' = <<>>]_vars

\* the evaluations of w that run() made and the calls of its callback, in
\* the trace of the next handler
RunEvals(w) ==
  {i \in DOMAIN trace' :
     trace'[i].e = "eval" /\ trace'[i].d = "run" /\ trace'[i].w = w}
RunCbs(w) == {i \in DOMAIN trace' : trace'[i].e = "cb" /\ trace'[i].w = w}
StopsBefore(w, i) ==
  {j \in 1..(i - 1) : trace'[j].e = "stop" /\ trace'[j].w = w}

SchedulerReset ==
  /\ queue = <<>> /\ index = 0 /\ ~waiting /\ ~flushing
  /\ \A w \in WIds : has[w] = "undefined" /\ circular[w] = 0

\* C15 (failure isolation of user watchers): an exception thrown by the
\* getter or the callback of a user watcher is handed to handleError and
\* leaves neither get() nor run(): no handler ends with an exception that
\* reached nextTick; the pass of the flush in which it was thrown goes on to
\* the next entry of the queue; a flush whose loop reached the end of the
\* queue has run every watcher that was queued when it started, and when
\* the flush has finished the scheduler state is reset.
C15_Isolation ==
  /\ [](/\ \A i \in TraceIdx :
             trace[i].e = "error" =>
               (trace[i].d \in {"getter", "callback"} /\ ws[trace[i].w].user)
        /\ (pc = "finish" /\ index = Len(queue)) =>
             Range(atStart) \subseteq Range(ranLog)
        /\ op.name = "flushFinish" => SchedulerReset)
  /\ [][(/\ op'.name = "flushStep"
          /\ \E i \in DOMAIN trace' : trace'[i].e = "error") =>
            /\ index' = index + 1
            /\ pc' = IF index' < Len(queue') THEN "flush" ELSE "finish"]_vars

\* a flush has finished in which the getter of watcher 1 threw (a is truthy)
\* and then the callback of watcher 2 threw: the render watcher behind them
\* was run all the same
C15_Witness ==
  /\ op.name = "flushFinish"
  /\ ws[1].getter.k = "throwIf" /\ ws[2].cb.k = "throw"
  /\ val["a"] = 1 /\ ws[1].value = Undef /\ ws[2].value = 1
  /\ ranLog = <<1, 2, 3>>
  /\ SchedulerReset

\* the diagnostic of the runaway guard was emitted for w by the last handler
Warned(w) ==
  /\ op.name = "flushStep" /\ op.w = w
  /\ trace # <<>> /\ Last(trace) = Ev("warn", w, "loop", Undef, Undef)

\* C16 (runaway guard): circular[id] counts the runs of a watcher during
\* which it was queued again.  It never exceeds MAX_UPDATE_COUNT + 1; when it
\* exceeds MAX_UPDATE_COUNT the diagnostic is emitted and the loop of the
\* flush is left, so the watcher is not run again in that flush; a watcher
\* that queued itself again in every one of its runs has therefore been run
\* at most 101 times, and the diagnostic is emitted in no other case.
C16_RunawayGuard ==
  \A w \in WIds :
    /\ circular[w] <= MAX_UPDATE_COUNT + 1
    /\ circular[w] > MAX_UPDATE_COUNT => (Warned(w) /\ pc = "finish")
    /\ (flushing /\ circular[w] = Count(ranLog, w)) => Count(ranLog, w) <= 101
    /\ Warned(w) => (circular[w] = 101 /\ Count(ranLog, w) >= 101 /\ pc = "finish")

\* watcher 1, whose callback writes the field it watches, has been run 101
\* times in one flush, each time queueing itself again: the diagnostic was
\* emitted and the loop left with the watcher still in the queue
C16_Witness ==
  /\ Warned(1) /\ ws[1].cb.k = "toggle" /\ ws[1].cb.f = ws[1].getter.f
  /\ Count(ranLog, 1) = 101 /\ circular[1] = 101
  /\ pc = "finish" /\ index < Len(queue) /\ queue[index + 2] = 1

\* C17 (flush termination): in one flush no watcher is run more often than
\* the runaway guard allows a watcher that triggers itself, MAX_UPDATE_COUNT
\* + 1 times, whichever watchers trigger which.
C17_AsStated ==
  \A w \in WIds : Count(ranLog, w) <= MAX_UPDATE_COUNT + 1

\* C18 (runaway abandonment is per unit): when a flush in which a watcher
\* exceeded the threshold has finished, every watcher that was queued for
\* that flush has been run and the scheduler state is reset.
C18_AsStated ==
  (op.name = "flushFinish" /\ \E w \in WIds : Count(ranLog, w) > MAX_UPDATE_COUNT) =>
    /\ Range(queuedLog) \subseteq Range(ranLog)
    /\ SchedulerReset

\* the flushSchedulerQueue callbacks that nextTick holds or flushCallbacks
\* has still to call
FlushCbs == Count(callbacks, "flush") + Count(copies, "flush")

ObNotifies == Cardinality({i \in TraceIdx : trace[i].e = "notify" /\ trace[i].d = "ob"})
Updates == {i \in TraceIdx : trace[i].e = "update"}
\* the target was not readonly and had an Observer with vmCount 0
Settable(t) == ~t.readonly /\ t.ob /\ t.vmCount = 0
\* the own keys other than key are as they were
OthersKept(key) ==
  \A k \in TKeys \ {key} :
    tgt.keys[k] = tgtOp.before.keys[k] /\ tgt.vals[k] = tgtOp.before.vals[k]

\* C20 (set/del notification): on a target that is not readonly and has an
\* Observer with vmCount 0, set(target, key, val) with a key that is not
\* present makes key a reactive field holding val and calls notify on the
\* Observer's Dep exactly once; del of an own key removes it and calls that
\* notify exactly once; del of a key that is not an own property changes
\* nothing and calls neither notify nor update.
C20_SetDel ==
  /\ (op.name = "setKey" /\ Settable(tgtOp.before)
        /\ ~hasOwn(tgtOp.before, tgtOp.key)) =>
       /\ tgt.keys[tgtOp.key] = "reactive" /\ tgt.vals[tgtOp.key] = tgtOp.val
       /\ OthersKept(tgtOp.key)
       /\ ObNotifies = 1
  /\ (op.name = "delKey" /\ Settable(tgtOp.before)
        /\ hasOwn(tgtOp.before, tgtOp.key)) =>
       /\ ~hasOwn(tgt, tgtOp.key)
       /\ OthersKept(tgtOp.key)
       /\ ObNotifies = 1
  /\ (op.name = "delKey" /\ Settable(tgtOp.before)
        /\ ~hasOwn(tgtOp.before, tgtOp.key)) =>
       /\ tgt = tgtOp.before
       /\ ObNotifies = 0 /\ Updates = {}

\* set has added the key y to an observed object that three watchers of its
\* keys are subscribed to: update() was called on each, once
C20_Witness ==
  /\ op.name = "setKey" /\ tgtOp.key = "y" /\ Settable(tgtOp.before)
  /\ ~hasOwn(tgtOp.before, "y")
  /\ tgt.keys["y"] = "reactive"
  /\ Cardinality(Updates) = 3
  /\ \A w \in WIds : EvCount("update", w) = 1
  /\ 1 \in Range(queue)

\* C21 (readonly targets): set and del called on a target flagged readonly
\* leave the target as it was and call neither notify nor update, for object
\* targets and for array targets with a valid index.
C21_AsStated ==
  (op.name \in {"setKey", "delKey"} /\ tgtOp.before.readonly) =>
    /\ tgt = tgtOp.before
    /\ ObNotifies = 0 /\ Updates = {}

\* the target is a component instance or the root data of one
Guarded(t) == t.isVue \/ (t.ob /\ t.vmCount > 0)

\* C22 (root-data guard): set with a key that is not present, on an object
\* whose Observer has vmCount > 0 or on a component instance, adds no
\* property and calls neither notify nor update; del on such a target
\* deletes nothing and calls neither.
C22_RootGuard ==
  /\ (op.name = "setKey" /\ ~tgtOp.before.isArray
        /\ Guarded(tgtOp.before) /\ ~hasOwn(tgtOp.before, tgtOp.key)) =>
       /\ tgt = tgtOp.before
       /\ ObNotifies = 0 /\ Updates = {}
  /\ (op.name = "delKey" /\ ~tgtOp.before.isArray
        /\ Guarded(tgtOp.before)) =>
       /\ tgt = tgtOp.before
       /\ ObNotifies = 0 /\ Updates = {}

\* set was called with a new key on root data that three watchers are
\* subscribed to, and only warned
C22_Witness ==
  /\ op.name = "setKey" /\ tgtOp.key = "y"
  /\ tgtOp.before.ob /\ tgtOp.before.vmCount > 0 /\ ~tgtOp.before.readonly
  /\ ~hasOwn(tgtOp.before, "y")
  /\ Cardinality(Range(subs["ob"]) \ {Null}) = 3
  /\ \E i \in TraceIdx : trace[i].e = "warn"
  /\ result = tgtOp.val

\* the vnode handed to the patch by event i of the trace came from a render
\* function that threw
RenderFailed(i) ==
  /\ trace[i].e = "patch"
  /\ \E j \in 1..(i - 1) :
       trace[j].e = "error" /\ trace[j].d = "render" /\ trace[j].w = trace[i].w

C24_AsStated == patched => DomCount("TypeError") = 0

\* event j of the trace is a read of a computed property made by the
\* evaluation of watcher r that the flush has just run
ReadsComputed(r, j) ==
  /\ op.name = "flushStep" /\ op.w = r
  /\ trace[j].e = "computedGetter"
  /\ \E i \in 1..(j - 1) : IsEv(i, "eval", r)

\* C25 (derived-value dependency re-export): after the evaluation of a
\* watcher R has read a computed property through the computed getter, R is
\* subscribed to every Dep in the deps of the property's lazy watcher; and a
\* later value-changing write to the field of any of those Deps calls
\* update() on R and queues it, though R's getter reads only the property.
C25_ReExport ==
  /\ [](\A r \in WIds : \A j \in TraceIdx :
          ReadsComputed(r, j) =>
            \A d \in Range(ws[trace[j].w].deps) :
              /\ Count(subs[d], r) = 1
              /\ d \in Range(ws[r].deps))
  /\ [][\A r \in WIds :
          (/\ op'.name = "set" /\ op'.x = 1
           /\ ws[r].active /\ ~ws[r].lazy /\ ws[r].getter.k = "computed"
           /\ has[r] # "true"
           /\ op'.f \in Range(ws[ws[r].getter.c].deps)) =>
            /\ \E i \in DOMAIN trace' : trace'[i].e = "update" /\ trace'[i].w = r
            /\ has'[r] = "true"]_vars

\* the flush has run the watcher of b ? c : computed while the computed
\* property a ? b : c was clean: it read the cached value and is subscribed
\* to the Deps of a and c, of which its own getter read neither
C25_Witness ==
  /\ op.name = "flushStep" /\ op.w = 3
  /\ \E j \in TraceIdx : ReadsComputed(3, j) /\ trace[j].x = 0
  /\ Range(ws[1].deps) = {"a", "c"}
  /\ Range(ws[3].deps) = {"b", "a", "c"}
  /\ Count(subs["a"], 3) = 1 /\ Count(subs["c"], 3) = 1

\* targetStack[targetStack.length - 1]
Top(st) == IF st = <<>> THEN Null ELSE Last(st)

\* C26 (active-computation stack discipline): every call of Watcher.get
\* leaves Dep.target and targetStack as it found them, whether its getter
\* returned or threw and whatever evaluation it is nested in; and Dep.target
\* is the top of targetStack before the call, after its pushTarget(this),
\* and between handlers.
C26_StackDiscipline ==
  /\ target = Top(targetStack)
  /\ \A i \in DOMAIN getLog :
       LET g == getLog[i] IN
       /\ g.after = g.before
       /\ g.before[1] = Top(g.before[2])
       /\ g.pushed = <<g.w, Append(g.before[2], g.w)>>

\* the flush has run the render watcher; the computed property it read was
\* evaluated inside its evaluation and threw, and the exception left both
\* calls of get
C26_Witness ==
  /\ op.name = "flushStep" /\ op.w = 3
  /\ \E i \in DOMAIN getLog, j \in DOMAIN getLog :
       /\ i < j
       /\ getLog[i].w = 1 /\ getLog[i].threw /\ getLog[i].before = <<3, <<3>>>>
       /\ getLog[j].w = 3 /\ getLog[j].threw /\ getLog[j].before = <<Null, <<>>>>

\* the part of the queue q after the cursor index (counted from 0)
Rest(q, idx) == SubSeq(q, idx + 2, Len(q))
\* ascending ids
Ascending(q) == \A i \in 1..Len(q), j \in 1..Len(q) : i < j => q[i] < q[j]
\* the calls of queueWatcher made while flushing for a watcher that is not
\* of the post category
MidFlush == {i \in DOMAIN queueCalls :
               queueCalls[i].flushing /\ ~ws[queueCalls[i].w].post}

C28_AsStated ==
  \A i \in 1..Len(ranLog), j \in 1..Len(ranLog) :
    (i < j /\ ws[ranLog[i]].post) => ws[ranLog[j]].post

\* among the watchers queued before the flush started the post category
\* does run last
PostLastAtStart ==
  \A i \in 1..Len(atStart), j \in 1..Len(atStart) :
    (i < j /\ ws[atStart[i]].post) => ws[atStart[j]].post

\* the places of the trace where e was logged
Places(e) == {i \in 1..Len(trace) : trace[i].e = e}
HookCalls(hook) == {i \in Places("callHook") : trace[i].d = hook}
\* the watchers queued by the handler, in the order of the calls
QueuedNow == [i \in 1..Len(queueCalls) |-> queueCalls[i].w]

\* C29 (post-flush sequence): after the main pass of a flush the scheduler
\* state (queue, activated list, dedup set, index, waiting and flushing
\* flags) is reset first, then the deferred activated notifications and then
\* the updated notifications are processed, on the copies taken before the
\* reset, and the Dep compaction sweep runs last; so a watcher queued by one
\* of the notifications is queued as outside a flush: it is in the new
\* queue when the flush ends, and the scheduler is waiting for a new flush.
C29_PostFlush ==
  op.name = "flushFinish" =>
    /\ Places("reset") = {1}
    /\ Places("cleanupDeps") = {Len(trace)}
    /\ \A i \in HookCalls("activated"), j \in HookCalls("updated") : i < j
    /\ \A i \in Places("callHook") : 1 < i /\ i < Len(trace)
    /\ \A i \in 1..Len(queueCalls) : ~queueCalls[i].flushing
    /\ queue = QueuedNow
    /\ \A w \in WIds : (has[w] = "true") <=> (w \in Range(queue))
    /\ waiting = (queue # <<>>)
    /\ ~flushing /\ index = 0 /\ activatedChildren = <<>>
    /\ pendingCleanupDeps = <<>>
    /\ \A d \in Deps : Count(subs[d], Null) = 0

\* a flush that ends with an activated and an updated notification, the
\* second of which queues a watcher
C29_Witness ==
  /\ op.name = "flushFinish"
  /\ HookCalls("activated") # {} /\ HookCalls("updated") # {}
  /\ queue # <<>> /\ waiting

\* C29 as stated: the notifications are processed before the scheduler
\* state is reset.
C29_AsStated ==
  op.name = "flushFinish" =>
    \A i \in Places("callHook"), j \in Places("reset") : i < j

\* C30 (subscriber uniqueness): in every reachable state each watcher occurs
\* at most once among the non-null entries of the subscriber list of a Dep,
\* whether the Dep is read several times in one evaluation, dropped in one
\* evaluation and read again in a later one, or left by teardown.
C30_Unique ==
  \A d \in Deps : \A w \in WIds : Count(subs[d], w) <= 1

\* a Dep a watcher dropped and subscribed to again, in a list that still
\* has the null slot of the removal, while another watcher is stopped
C30_Witness ==
  \E d \in Deps : \E w \in WIds :
    /\ Count(subs[d], w) = 1 /\ Count(subs[d], Null) > 0
    /\ \E i \in 1..Len(subs[d]) :
         subs[d][i] = Null /\ IndexOf(subs[d], w) > i
    /\ \E x \in WIds : ~ws[x].active

\* the objects dependArray reaches from the root of the heap, the root too
Tracked(n) ==
  LET r == heap.objs[heap.root]
      inner == UNION {Range(heap.objs[e].items) :
                        e \in {x \in Range(r.items) \cap Names : heap.objs[x].isArray}}
  IN  n = heap.root \/ (r.isArray /\ n \in Range(r.items) \cup inner)
\* update() was called on the watcher w, or the watcher still waits for
\* its evaluation
Invalidated(w) ==
  \/ \E i \in 1..Len(trace) : trace[i].e = "update" /\ trace[i].w = w
  \/ IF ws[w].lazy THEN ws[w].dirty ELSE w \in Range(queue)
\* the call of set or del added or removed the property
KeyChanged == hasOwn(tgtOp.before, tgtOp.key) # hasOwn(heap.objs[op.f], tgtOp.key)
Readers == {w \in WIds : ws[w].active /\ ws[w].getter.k = "container"}

\* C31 (container tracking): a watcher whose getter reads only a field
\* holding an observed object or array is invalidated by each of the seven
\* intercepted methods called on the array or on an array nested in it, by a
\* set or del that adds or removes a property of the object, and by a set
\* or del that adds or removes a property of an element object that carries
\* an Observer, of the array or of an array nested in it.
C31_Container ==
  \A w \in Readers :
    /\ (op.name = "method" /\ Tracked(op.f)) => Invalidated(w)
    /\ (op.name \in {"setOn", "delOn"} /\ Tracked(op.f) /\ KeyChanged
          /\ tgtOp.before.ob) => Invalidated(w)

\* a property is added to the observed object e2 after it was pushed on the
\* nested array, and the update reaches the watchers
C31_Witness ==
  /\ op.name = "setOn" /\ op.f = "e2" /\ heap.root = "A" /\ KeyChanged
  /\ "e2" \in Range(heap.objs["N"].items) /\ "N" \in Range(heap.objs["A"].items)
  /\ \A w \in Readers : \E i \in 1..Len(trace) :
       trace[i].e = "update" /\ trace[i].w = w /\ trace[i].d = "e2"

\* C31 as stated: a set or del that adds or removes a property of any
\* element object of the array invalidates the watcher.
C31_AsStated ==
  \A w \in Readers :
    (op.name \in {"setOn", "delOn"} /\ Tracked(op.f) /\ KeyChanged) => Invalidated(w)

\* the type attribute of a vnode, none when it has no such attribute
AttrType(v) == IF v.data \in {"text", "password", "checkbox"} THEN v.data ELSE "none"
\* the old child and the new child of a parent with one child
OldOne == oldVnodes[1]
NewOne == newCh[1]
SameBase ==
  /\ OldOne.key = NewOne.key /\ OldOne.asyncFactory = NewOne.asyncFactory
SameShape ==
  /\ OldOne.tag = NewOne.tag /\ OldOne.isComment = NewOne.isComment
  /\ (OldOne.data = "undef") = (NewOne.data = "undef")

WithKey(k) == {i \in 1..Len(oldVnodes) : oldVnodes[i].key = k}

\* C33 as stated (duplicate-key tie-break): when the new child is looked up
\* by its key among old children of which several have that key, the old
\* child reused is the first of them.
C33_AsStated ==
  (patched /\ Len(newCh) = 1 /\ DomCount("createKeyToOldIdx") = 1
     /\ DomCount("patchVnode") = 1) =>
    \A i \in WithKey(newCh[1].key) : newCh[1].elm <= oldVnodes[i].elm

\* the Deps whose subscriber list has the watcher as a non-null entry
SubscribedTo(w) == {d \in Deps : w \in Range(subs[d])}

\* C34 (subscription graph consistency): between the handlers, for every
\* active watcher and every Dep, the watcher is a non-null entry of the
\* Dep's subscriber list iff the Dep is in its deps, iff the Dep's id is in
\* its depIds, iff the Dep was read during its latest evaluation; newDeps
\* and newDepIds are empty.
C34_AsStated ==
  \A w \in WIds :
    /\ ws[w].newDeps = <<>> /\ ws[w].newDepIds = {}
    /\ ws[w].active =>
         /\ SubscribedTo(w) = Range(ws[w].deps)
         /\ Range(ws[w].deps) = ws[w].depIds
         /\ ws[w].depIds = reads[w]

\* the evaluator of the computed watcher k applied to the current fields
Fresh(k) ==
  LET g == ws[k].getter
  IN  IF g.k = "field" THEN val[g.f]
      ELSE IF Truthy(val[g.f]) THEN val[g.g] ELSE val[g.h]

\* C35 (derived-value freshness): every run of a watcher whose getter
\* returns a computed property, made by a write or by the flush after it,
\* gets the evaluator's result on the current field values.
C35_AsStated ==
  \A i \in TraceIdx :
    LET ev == trace[i]
    IN  (ev.e = "value" /\ ws[ev.w].getter.k \in {"then", "computed"}) =>
          ev.x = Fresh(ws[ev.w].getter.c)

\* C36 (scheduler recovery): when a flush has been left, by its end or by
\* an exception of a watcher's run(), the scheduler is idle: waiting and
\* flushing are false, the queue is empty and no id is marked as queued.
C36_AsStated ==
  (op.name \in {"flushStep", "flushFinish"} /\ pc \notin {"flush", "finish"}) =>
    /\ ~waiting /\ ~flushing /\ queue = <<>>
    /\ \A w \in WIds : has[w] # "true"

\* C37 (no resubscription after teardown): a watcher that was torn down is
\* not a non-null entry of the subscriber list of any Dep.
C37_AsStated ==
  \A w \in WIds : ~ws[w].active => SubscribedTo(w) = {}

\* the places in the trace of the calls of a hook of the watcher w
HookPlaces(w, hook) ==
  {i \in TraceIdx : trace[i].e = "callHook" /\ trace[i].w = w /\ trace[i].d = hook}

\* C38 ($destroy is idempotent): the first $destroy() of an instance calls
\* the beforeDestroy hooks once, then tears the watchers down, then calls
\* the destroyed hooks once, and decrements vmCount of the root data once;
\* a later $destroy() does nothing.
C38_AsStated ==
  /\ tgt.vmCount \in {0, 1}
  /\ op.name = "destroy" =>
       LET first == IF op.x = 0 THEN 1 ELSE 0
           stops == {i \in TraceIdx : trace[i].e = "stop"}
       IN  /\ Cardinality(HookPlaces(op.w, "beforeDestroy")) = first
           /\ Cardinality(HookPlaces(op.w, "destroyed")) = first
           /\ Cardinality({i \in TraceIdx : trace[i].e = "vmCount"}) = first
           /\ \A i \in HookPlaces(op.w, "beforeDestroy"), j \in stops : i < j
           /\ \A i \in stops, j \in HookPlaces(op.w, "destroyed") : i < j

\* C39 (nextTick batches): the callbacks invoked are, in order, the first
\* of the callbacks registered, and every callback registered is invoked
\* in the end, so each is invoked exactly once in registration order; a
\* callback registered while a batch is run goes to callbacks and not to
\* the copies being run, and the timer is armed for it; a callback that
\* throws is followed by the next copy, the error being reported.
C39_Batches ==
  /\ [](/\ Len(tickLog.ran) <= Len(tickLog.reg)
        /\ \A i \in 1..Len(tickLog.ran) : tickLog.ran[i] = tickLog.reg[i])
  /\ [][(pc = "copies" /\ Len(callbacks') > Len(callbacks)) =>
          /\ copies' = Tail(copies)
          /\ pending' /\ timers' > 0]_vars
  /\ [][(op'.name = "callTick" /\ op'.f = "cbThrow") =>
          /\ copies' = Tail(copies) /\ pc' = AfterCopy(copies')
          /\ \E i \in DOMAIN trace' : trace'[i].e = "error" /\ trace'[i].d = "nextTick"]_vars
  /\ \A c \in TickCbs :
       (c \in Range(tickLog.reg)) ~> (c \in Range(tickLog.ran))

\* the callback that throws was invoked and the one registered after it
\* too, and the callback registered during a batch was invoked in a later
\* one
C39_Witness ==
  /\ tickLog.ran = <<"cbNext", "cbThrow", "cbSet", "cbLate">>
  /\ op.name = "callTick" /\ op.f = "cbLate"

\* a render watcher whose component is mounted and not destroyed
Updatable(w) ==
  ws[w].before /\ ws[w].vm.isMounted /\ ~ws[w].vm.isDestroyed

\* the calls of the updated hooks a handler made, in their order
UpdatedCalls ==
  SelectSeq(trace, LAMBDA ev : ev.e = "callHook" /\ ev.d = "updated")

\* C40 (update hooks ordering): a pass of the flush calls beforeUpdate
\* only for a component that is mounted and not destroyed, and right
\* before the run of its render watcher; the end of the flush calls the
\* updated hooks of the mounted, not destroyed components whose render
\* watcher the flush has run, and of no other, in the reverse of the order
\* of the runs.
C40_AsStated ==
  /\ op.name = "flushStep" =>
       \A i \in HookCalls("beforeUpdate") :
         /\ Updatable(trace[i].w) /\ i < Len(trace)
         /\ trace[i + 1].e = "run" /\ trace[i + 1].w = trace[i].w
  /\ op.name = "flushFinish" =>
       LET ran == SelectSeq(ranLog, Updatable)
       IN  /\ Len(UpdatedCalls) = Len(ran)
           /\ \A i \in 1..Len(ran) : UpdatedCalls[i].w = ran[Len(ran) + 1 - i]

====
